---- MODULE Spec2Model ----
(***************************************************************************)
(* Triton load-balancer controller: the reconciler of                      *)
(* pkg/controller/loadbalancer_controller.go over the Triton client of     *)
(* pkg/triton (CreateLoadBalancer, UpdateLoadBalancer, DeleteLoadBalancer, *)
(* GetLoadBalancer, GetInstanceByName), one step per remote call.          *)
(***************************************************************************)
EXTENDS Integers, Sequences, FiniteSets, TLC

VARIABLES
    svc,        \* the Service objects of the orchestration layer, by identity
    instances,  \* the remote store: instances in creation order, index = ID
    pass,       \* per identity: position and locals of its Reconcile pass
    cur,        \* per identity: record of the calls of the running/last pass
    prev,       \* per identity: summary of the pass before that
    ctxDone,    \* per identity: the pass's context is cancelled
    faults,     \* number of remote calls that failed so far
    passes,     \* number of Reconcile passes (or client calls) started so far
    env,        \* the process environment: the two timeout settings
    fn,         \* the pure function under check ("none" while the system runs)
    arg,        \* its input
    ret         \* <<>>, or the one-element sequence of its result

sys == <<svc, instances, pass, cur, prev, ctxDone, faults, passes, env>>
pure == <<fn, arg, ret>>
vars == <<sys, pure>>

-----------------------------------------------------------------------------
(* Bounds of the model *)

\* instances ever submitted to the remote store
MaxInstances == 2
\* remote (or orchestration-layer) calls that fail in one behaviour
MaxFaults == 1
\* Reconcile passes started in one behaviour
MaxPasses == 2

-----------------------------------------------------------------------------
(* Strings (Go's strings package, as far as the code uses it) *)

Char(s, i) == SubSeq(s, i, i)

HasPrefix(s, p) == Len(s) >= Len(p) /\ SubSeq(s, 1, Len(p)) = p

Contains(s, sub) ==
    \E i \in 0..(Len(s) - Len(sub)) : SubSeq(s, i + 1, i + Len(sub)) = sub

Digits == "0123456789"

IsDigit(c) == \E i \in 1..10 : Char(Digits, i) = c

DigitVal(c) == (CHOOSE i \in 1..10 : Char(Digits, i) = c) - 1

RECURSIVE DigitsVal(_, _)
DigitsVal(s, acc) ==
    IF s = "" THEN acc ELSE DigitsVal(Tail(s), acc * 10 + DigitVal(Head(s)))

AllDigits(s) == \A i \in 1..Len(s) : IsDigit(Char(s, i))

\* strconv.Atoi: an optional sign, then one or more decimal digits
Atoi(s) ==
    LET signed == s # "" /\ (Head(s) = "-" \/ Head(s) = "+")
        body   == IF signed THEN Tail(s) ELSE s
    IN  IF body # "" /\ AllDigits(body)
        THEN [ok |-> TRUE,
              val |-> IF signed /\ Head(s) = "-"
                      THEN 0 - DigitsVal(body, 0) ELSE DigitsVal(body, 0)]
        ELSE [ok |-> FALSE, val |-> 0]

\* strconv.Itoa
Itoa(n) == ToString(n)

\* strings.Split(s, sep) for a non-empty separator
RECURSIVE SplitFrom(_, _, _, _)
SplitFrom(s, sep, tok, acc) ==
    IF s = "" THEN Append(acc, tok)
    ELSE IF HasPrefix(s, sep)
         THEN SplitFrom(SubSeq(s, Len(sep) + 1, Len(s)), sep, "", Append(acc, tok))
         ELSE SplitFrom(Tail(s), sep, tok \o Head(s), acc)

Split(s, sep) == SplitFrom(s, sep, "", <<>>)

\* a tokenizer that knows the comma only
splitACL_CommaOnly(s) == SelectSeq(Split(s, ","), LAMBDA t : t # "")

\* strings.FieldsFunc(s, r == ',' || r == ' '), then the drop of empty tokens
RECURSIVE FieldsFrom(_, _, _)
FieldsFrom(s, tok, acc) ==
    IF s = ""
    THEN IF tok = "" THEN acc ELSE Append(acc, tok)
    ELSE IF Head(s) = "," \/ Head(s) = " "
         THEN FieldsFrom(Tail(s), "", IF tok = "" THEN acc ELSE Append(acc, tok))
         ELSE FieldsFrom(Tail(s), tok \o Head(s), acc)

splitACL(s) == FieldsFrom(s, "", <<>>)

\* strings.SplitN(s, sep, 2): cut at the first occurrence of sep, if any
SplitN2(s, sep) ==
    IF Contains(s, sep)
    THEN LET i == CHOOSE k \in 0..(Len(s) - Len(sep)) :
                    /\ SubSeq(s, k + 1, k + Len(sep)) = sep
                    /\ \A j \in 0..(k - 1) : SubSeq(s, j + 1, j + Len(sep)) # sep
         IN  <<SubSeq(s, 1, i), SubSeq(s, i + Len(sep) + 1, Len(s))>>
    ELSE <<s>>

-----------------------------------------------------------------------------
(* Errors: nil is the empty sequence, an error the one-element sequence of  *)
(* its message                                                              *)

NilErr == <<>>
Err(msg) == <<msg>>
Msg(e) == e[1]
\* fmt.Errorf("<prefix>: %v", err)
Wrap(prefix, e) == Err(prefix \o ": " \o Msg(e))

\* isTransientError without its third substring
isTransientError_NoRateLimit(e) ==
    /\ e # NilErr
    /\ \/ Contains(Msg(e), "timeout")
       \/ Contains(Msg(e), "connection refused")

\* isTransientError: substring classification of the error's message
isTransientError(e) ==
    /\ e # NilErr
    /\ \/ Contains(Msg(e), "timeout")
       \/ Contains(Msg(e), "connection refused")
       \/ Contains(Msg(e), "rate limit")

-----------------------------------------------------------------------------
(* The data model *)

\* object identities: <<namespace, name>>; two namespaces hold a Service "a"
Idents == {<<"ns1", "a">>, <<"ns2", "a">>}
Namespace(id) == id[1]
Name(id) == id[2]

ServiceTypeLoadBalancer == "LoadBalancer"
ServiceTypes == {ServiceTypeLoadBalancer, "ClusterIP"}
Finalizer == "loadbalancer.triton.io/finalizer"

\* Service ports and annotations the model draws from
PortsHTTP == <<[name |-> "http", port |-> 80, targetPort |-> 8080]>>
PortsMixed == <<[name |-> "", port |-> 443, targetPort |-> 8443],
               [name |-> "db", port |-> 3306, targetPort |-> 0]>>
NoAnnotations == <<>>
FullAnnotations ==
    [k \in {"cloud.tritoncompute/max_rs", "cloud.tritoncompute/certificate_name",
            "cloud.tritoncompute/metrics_acl"} |->
        CASE k = "cloud.tritoncompute/max_rs" -> "64"
          [] k = "cloud.tritoncompute/certificate_name" -> "example.com"
          [] OTHER -> "10.0.0.0/8 192.168.0.0/16"]
\* the Service of each identity: ns1/a is plain, ns2/a carries every annotation
ShapeOf(id) ==
    IF Namespace(id) = "ns1"
    THEN [ports |-> PortsHTTP, annotations |-> NoAnnotations]
    ELSE [ports |-> PortsMixed, annotations |-> FullAnnotations]

\* address lists an instance may come up with
AddrLists == {<<>>, <<"10.0.0.1", "203.0.113.1">>}

\* errors the remote API (or the orchestration layer's API) may answer with
ApiErrors == {Err("connection timeout"), Err("invalid credentials")}

ManagedTags(name) ==
    [k \in {"k8s-service", "managed-by", "loadbalancer"} |->
        CASE k = "k8s-service" -> name
          [] k = "managed-by" -> "triton-loadbalancer-controller"
          [] OTHER -> "true"]

\* the listing filter without the managed-by tag
ListTags_NoManagedBy == [k \in {"loadbalancer"} |-> "true"]

\* the listing filter with a managed-by value no created instance carries
ListTags_OtherOwner ==
    [k \in {"loadbalancer", "managed-by"} |->
        IF k = "loadbalancer" THEN "true" ELSE "triton-lb-controller"]

\* the Tags filter every listing of the client passes
ListTags ==
    [k \in {"loadbalancer", "managed-by"} |->
        IF k = "loadbalancer" THEN "true" ELSE "triton-loadbalancer-controller"]

\* a listing that leaves out the instances that do not run yet
ListInstances_RunningOnly(name) ==
    {x \in 1..Len(instances) :
        /\ instances[x].state \in {"running", "deleting"}
        /\ instances[x].name = name
        /\ \A k \in DOMAIN ListTags :
              k \in DOMAIN instances[x].tags /\ instances[x].tags[k] = ListTags[k]}

\* compute.Instances().List(Name: name, Tags: ListTags): the IDs listed
ListInstances(name) ==
    {x \in 1..Len(instances) :
        /\ instances[x].state # "gone"
        /\ instances[x].name = name
        /\ \A k \in DOMAIN ListTags :
              k \in DOMAIN instances[x].tags /\ instances[x].tags[k] = ListTags[k]}

-----------------------------------------------------------------------------
(* extractLoadBalancerParams *)

\* a classification that looks at the name of the port only
portType_NameOnly(port) ==
    IF port.name = "http" THEN "http"
    ELSE IF port.name = "https" THEN "https"
    ELSE "tcp"

\* a classification that tests the https rule first
portType_HttpsFirst(port) ==
    IF port.name = "https" \/ port.port = 443 THEN "https"
    ELSE IF port.name = "http" \/ port.port = 80 THEN "http"
    ELSE "tcp"

portType(port) ==
    IF port.name = "http" \/ port.port = 80 THEN "http"
    ELSE IF port.name = "https" \/ port.port = 443 THEN "https"
    ELSE "tcp"

\* a backend port that falls back to the listen port when no target is declared
extractPortMappings_DefaultTarget(name, ports) ==
    [i \in 1..Len(ports) |->
        [Type |-> portType(ports[i]), ListenPort |-> ports[i].port,
         BackendName |-> name,
         BackendPort |-> IF ports[i].targetPort = 0 THEN ports[i].port
                         ELSE ports[i].targetPort]]

\* the loop over service.Spec.Ports; targetPort is port.TargetPort.IntVal
extractPortMappings(name, ports) ==
    [i \in 1..Len(ports) |->
        [Type |-> portType(ports[i]), ListenPort |-> ports[i].port,
         BackendName |-> name, BackendPort |-> ports[i].targetPort]]

extractMaxBackends(annotations) ==
    IF "cloud.tritoncompute/max_rs" \in DOMAIN annotations
       /\ Atoi(annotations["cloud.tritoncompute/max_rs"]).ok
    THEN Atoi(annotations["cloud.tritoncompute/max_rs"]).val ELSE 0

extractCertificateName(annotations) ==
    IF "cloud.tritoncompute/certificate_name" \in DOMAIN annotations
    THEN annotations["cloud.tritoncompute/certificate_name"] ELSE ""

extractMetricsACL(annotations) ==
    IF "cloud.tritoncompute/metrics_acl" \in DOMAIN annotations
    THEN splitACL(annotations["cloud.tritoncompute/metrics_acl"]) ELSE <<>>

\* an extraction that gives up on a max_rs annotation it cannot read
extractLoadBalancerParams_Strict(name, ports, annotations) ==
    IF "cloud.tritoncompute/max_rs" \in DOMAIN annotations
       /\ ~Atoi(annotations["cloud.tritoncompute/max_rs"]).ok
    THEN [Name |-> "", PortMappings |-> <<>>, MaxBackends |-> 0,
          CertificateName |-> "", MetricsACL |-> <<>>]
    ELSE [Name |-> name,
          PortMappings |-> extractPortMappings(name, ports),
          MaxBackends |-> extractMaxBackends(annotations),
          CertificateName |-> extractCertificateName(annotations),
          MetricsACL |-> extractMetricsACL(annotations)]

extractLoadBalancerParams(name, ports, annotations) ==
    [Name |-> name,
     PortMappings |-> extractPortMappings(name, ports),
     MaxBackends |-> extractMaxBackends(annotations),
     CertificateName |-> extractCertificateName(annotations),
     MetricsACL |-> extractMetricsACL(annotations)]

-----------------------------------------------------------------------------
(* The metadata document written by create and by update *)

\* the encoder leaving the backend port out
portmapEntry_NoBackendPort(m) ==
    m.Type \o "://" \o Itoa(m.ListenPort) \o ":" \o m.BackendName

portmapEntry(m) ==
    IF m.BackendPort > 0
    THEN m.Type \o "://" \o Itoa(m.ListenPort) \o ":" \o m.BackendName
         \o ":" \o Itoa(m.BackendPort)
    ELSE m.Type \o "://" \o Itoa(m.ListenPort) \o ":" \o m.BackendName

RECURSIVE joinComma(_)
joinComma(strs) ==
    IF strs = <<>> THEN ""
    ELSE IF Len(strs) = 1 THEN strs[1]
    ELSE strs[1] \o "," \o joinComma(Tail(strs))

portmapString(mappings) ==
    joinComma([i \in 1..Len(mappings) |-> portmapEntry(mappings[i])])

Opt(cond, key, val) == IF cond THEN key :> val ELSE <<>>

\* a document that leaves the portmap key out when there is no mapping
createMetadata_PortmapIfAny(params) ==
    ("cloud.tritoncompute:loadbalancer" :> "true")
    @@ Opt(Len(params.PortMappings) > 0, "cloud.tritoncompute:portmap",
           portmapString(params.PortMappings))
    @@ Opt(params.MaxBackends > 0, "cloud.tritoncompute:max_rs", Itoa(params.MaxBackends))
    @@ Opt(params.CertificateName # "", "cloud.tritoncompute:certificate_name",
           params.CertificateName)
    @@ Opt(Len(params.MetricsACL) > 0, "cloud.tritoncompute:metrics_acl",
           joinComma(params.MetricsACL))

\* CreateLoadBalancer: the metadata of the created instance
createMetadata(params) ==
    ("cloud.tritoncompute:loadbalancer" :> "true")
    @@ ("cloud.tritoncompute:portmap" :> portmapString(params.PortMappings))
    @@ Opt(params.MaxBackends > 0, "cloud.tritoncompute:max_rs", Itoa(params.MaxBackends))
    @@ Opt(params.CertificateName # "", "cloud.tritoncompute:certificate_name",
           params.CertificateName)
    @@ Opt(Len(params.MetricsACL) > 0, "cloud.tritoncompute:metrics_acl",
           joinComma(params.MetricsACL))

\* CreateLoadBalancer: the instance Instances().Create submits;
\* owner: the identity whose pass submitted the instance
NewInstance(params, id) ==
    [name |-> params.Name, tags |-> ManagedTags(params.Name), owner |-> id,
     state |-> "provisioning", metadata |-> createMetadata(params), ips |-> <<>>]

\* UpdateLoadBalancer: the metadata passed to UpdateMetadata
updateMetadata(params) ==
    ("cloud.tritoncompute:loadbalancer" :> "true")
    @@ ("cloud.tritoncompute:portmap" :> portmapString(params.PortMappings))
    @@ Opt(params.MaxBackends > 0, "cloud.tritoncompute:max_rs", Itoa(params.MaxBackends))
    @@ Opt(params.CertificateName # "", "cloud.tritoncompute:certificate_name",
           params.CertificateName)
    @@ Opt(Len(params.MetricsACL) > 0, "cloud.tritoncompute:metrics_acl",
           joinComma(params.MetricsACL))

\* compute.Instances().UpdateMetadata: the store adds the keys of the document
\* to the metadata of the instance and overwrites the ones it holds
UpdateMetadata(old, doc) == doc @@ old

-----------------------------------------------------------------------------
(* parsePortMap: the decoder of the portmap string *)

\* one iteration of the loop of parsePortMap: the mappings the entry adds
parseEntry(entry) ==
    LET parts == SplitN2(entry, "://")
    IN  IF Len(parts) # 2 THEN <<>>
        ELSE LET portParts == Split(parts[2], ":")
             IN  IF Len(portParts) < 2 THEN <<>>
                 ELSE IF ~Atoi(portParts[1]).ok THEN <<>>
                 ELSE <<[Type |-> parts[1],
                         ListenPort |-> Atoi(portParts[1]).val,
                         BackendName |-> portParts[2],
                         BackendPort |-> IF Len(portParts) > 2
                                         THEN Atoi(portParts[3]).val ELSE 0]>>

RECURSIVE parseEntries(_)
parseEntries(entries) ==
    IF entries = <<>> THEN <<>>
    ELSE parseEntry(Head(entries)) \o parseEntries(Tail(entries))

\* a decoder that gives up on the whole string at the first entry it drops
parsePortMap_AllOrNothing(portmapStr) ==
    IF \E i \in 1..Len(Split(portmapStr, ",")) :
          parseEntry(Split(portmapStr, ",")[i]) = <<>>
    THEN <<>>
    ELSE parseEntries(Split(portmapStr, ","))

parsePortMap(portmapStr) == parseEntries(Split(portmapStr, ","))

\* GetLoadBalancer: the configuration read from the metadata of the instance
decodeParams(name, metadata) ==
    [Name |-> name,
     PortMappings |->
        IF "cloud.tritoncompute:portmap" \in DOMAIN metadata
        THEN parsePortMap(metadata["cloud.tritoncompute:portmap"]) ELSE <<>>,
     MaxBackends |->
        IF "cloud.tritoncompute:max_rs" \in DOMAIN metadata
           /\ Atoi(metadata["cloud.tritoncompute:max_rs"]).ok
        THEN Atoi(metadata["cloud.tritoncompute:max_rs"]).val ELSE 0,
     CertificateName |->
        IF "cloud.tritoncompute:certificate_name" \in DOMAIN metadata
        THEN metadata["cloud.tritoncompute:certificate_name"] ELSE "",
     MetricsACL |->
        IF "cloud.tritoncompute:metrics_acl" \in DOMAIN metadata
        THEN splitACL(metadata["cloud.tritoncompute:metrics_acl"]) ELSE <<>>]

-----------------------------------------------------------------------------
(* Poll bounds *)

\* TRITON_PROVISION_TIMEOUT and TRITON_DELETE_TIMEOUT of the controller's
\* deployment
ProvisionTimeoutEnv == "10"
DeleteTimeoutEnv == "15"

\* a setting taken whenever it is an integer
timeoutSeconds_AnyInteger(timeoutEnv) ==
    IF timeoutEnv # "" /\ Atoi(timeoutEnv).ok THEN Atoi(timeoutEnv).val ELSE 300

timeoutSeconds(timeoutEnv) ==
    IF timeoutEnv # "" /\ Atoi(timeoutEnv).ok /\ Atoi(timeoutEnv).val > 0
    THEN Atoi(timeoutEnv).val
    ELSE 300

\* the iteration count rounded up past the timeout
maxIterations_OneMore(seconds) == seconds \div 10 + 1

maxIterations(seconds) == IF seconds \div 10 < 1 THEN 1 ELSE seconds \div 10

-----------------------------------------------------------------------------
(* Address selection of reconcileNormal *)

\* the prefix test without "172."
isPrivate_No172(ip) ==
    HasPrefix(ip, "10.") \/ HasPrefix(ip, "192.168.")

isPrivate(ip) ==
    HasPrefix(ip, "10.") \/ HasPrefix(ip, "192.168.") \/ HasPrefix(ip, "172.")

RECURSIVE firstPublic(_)
firstPublic(ips) ==
    IF ips = <<>> THEN ""
    ELSE IF ~isPrivate(Head(ips)) THEN Head(ips)
    ELSE firstPublic(Tail(ips))

\* lbIP of reconcileNormal, for a non-empty address list
selectIP(ips) ==
    IF firstPublic(ips) = "" /\ Len(ips) > 0 THEN ips[1] ELSE firstPublic(ips)

-----------------------------------------------------------------------------
(* State of a pass and the record kept of it *)

NoParams == [Name |-> "", PortMappings |-> <<>>, MaxBackends |-> 0,
             CertificateName |-> "", MetricsACL |-> <<>>]

\* site: which GetLoadBalancer call of reconcileNormal runs (1: line 87, 2: line 112)
IdlePass == [pc |-> "idle", site |-> 0, lbParams |-> NoParams, instID |-> 0,
             i |-> 0, ips |-> <<>>]

\* ctrl.Result{} and the error returned with it
Result(after, e) == [RequeueAfter |-> after, err |-> e]

\* kind: which branch of Reconcile the pass took; lookup: what the first
\* GetLoadBalancer reported; create/update/delete: calls of CreateLoadBalancer,
\* UpdateLoadBalancer, DeleteLoadBalancer; status: status writes; apiDelete:
\* Instances().Delete calls; apiUpdate: Instances().UpdateMetadata calls; polls: status checks of a wait loop; cfg: the
\* configuration passed to create or update; fault: the failure a remote call
\* answered with; created: the ID of the instance the pass submitted (0: none);
\* err: the error that ended the pass; res: what Reconcile returned; type,
\* deleting, ingress0: the Service as the pass fetched it; wrote: the create or
\* update call of the pass returned nil; lbInstance: what GetInstanceByName
\* returned; observed: what the last check of a wait loop (or the first
\* listing of DeleteLoadBalancer) saw; cancelledAt: the number of checks made
\* when the context was cancelled (-1: not cancelled)
NoInstance == [reached |-> FALSE, found |-> FALSE, ips |-> <<>>]

NewRecord(kind, service) ==
    [kind |-> kind, type |-> service.type, deleting |-> service.deleting,
     ingress0 |-> service.ingress,
     lookup |-> "none", create |-> 0, update |-> 0, delete |-> 0,
     status |-> 0, apiDelete |-> 0, apiUpdate |-> 0, polls |-> 0,
     cfg |-> NoParams, created |-> 0,
     wrote |-> FALSE, lbInstance |-> NoInstance, observed |-> "",
     cancelledAt |-> -1,
     fault |-> NilErr, err |-> NilErr, done |-> FALSE, res |-> Result(0, NilErr)]

\* the Service of a pass that fetched none
NoService == [type |-> "", deleting |-> FALSE, ingress |-> <<>>]

NoRecord == [NewRecord("none", NoService) EXCEPT !.done = TRUE]

\* the operations of the client a caller other than Reconcile may call
ClientOps == {"CreateLoadBalancer", "UpdateLoadBalancer", "DeleteLoadBalancer",
              "GetLoadBalancer", "GetInstanceByName"}

\* what is kept of a pass once the next one of the same identity starts
Summary(c) ==
    [kind |-> c.kind, create |-> c.create, created |-> c.created,
     ok |-> c.res.err = NilErr]

\* the record of the passes is kept for the claims that read it; SpecLive,
\* whose passes never end, keeps none
Recording == fn # "live"

Goto(id, p, c) ==
    /\ pass' = [pass EXCEPT ![id] = p]
    /\ cur' = IF Recording THEN [cur EXCEPT ![id] = c] ELSE cur

\* the pass returns `result`
Finish(id, c, result) ==
    Goto(id, IdlePass, [c EXCEPT !.done = TRUE, !.res = result])

\* the error logged and dropped
reconcileError_Swallowed(e) == Result(0, NilErr)

\* `return ctrl.Result{}, err` of Reconcile, reconcileNormal and reconcileDelete
reconcileError(e) == Result(0, e)

\* `return ctrl.Result{}, nil`
reconcileSuccess == Result(0, NilErr)

\* the error logged, the pass going on to the status update
FinishErr_LogOnly(id, c, e) ==
    Goto(id, [pass[id] EXCEPT !.pc = "GetInstanceByName_List"], [c EXCEPT !.err = e])

\* a call of the pass returned the error e: the pass returns
FinishErr(id, c, e) == Finish(id, [c EXCEPT !.err = e], reconcileError(e))

\* the pass ran to its end
FinishOK(id, c) == Finish(id, c, reconcileSuccess)

\* a client operation returned nil: reconcileNormal goes on at p, any other
\* caller has its result
Continue(id, p, c) ==
    IF c.kind \in ClientOps THEN FinishOK(id, c) ELSE Goto(id, p, c)

\* the client call that ends the pass returned e
FinishWith(id, c, e) == IF e = NilErr THEN FinishOK(id, c) ELSE FinishErr(id, c, e)

\* a remote call fails with e; the client returns `wrapped`, the pass ends with it
Fail(id, e, wrapped) ==
    /\ faults < MaxFaults
    /\ faults' = faults + 1
    /\ FinishErr(id, [cur[id] EXCEPT !.fault = e], wrapped)

-----------------------------------------------------------------------------
(* Initial state *)

\* the remote store when the controller starts: empty, or holding the running
\* instance an earlier run of the controller created for ns1/a (that run wrote
\* the instance's public address to the status of ns1/a)
InitialStores ==
    {<<>>,
     <<[NewInstance(extractLoadBalancerParams("a", PortsHTTP, NoAnnotations),
                    <<"ns1", "a">>)
        EXCEPT !.state = "running", !.ips = <<"10.0.0.1", "203.0.113.1">>]>>}

Init ==
    /\ svc \in [Idents -> [exists : {TRUE}, type : ServiceTypes, deleting : {FALSE},
                           finalizers : {{}, {Finalizer}},
                           ports : {PortsHTTP, PortsMixed},
                           annotations : {NoAnnotations, FullAnnotations},
                           ingress : {<<>>, <<"203.0.113.1">>}]]
    /\ \A id \in Idents :
          /\ svc[id].ports = ShapeOf(id).ports
          /\ svc[id].annotations = ShapeOf(id).annotations
    /\ svc[<<"ns1", "a">>].type = ServiceTypeLoadBalancer
    /\ svc[<<"ns2", "a">>].finalizers = {Finalizer}
    /\ instances \in InitialStores
    /\ svc[<<"ns1", "a">>].ingress = IF instances = <<>> THEN <<>> ELSE <<"203.0.113.1">>
    /\ svc[<<"ns2", "a">>].ingress = <<>>
    /\ pass = [id \in Idents |-> IdlePass]
    /\ cur = [id \in Idents |-> NoRecord]
    /\ prev = [id \in Idents |-> Summary(NoRecord)]
    /\ ctxDone = [id \in Idents |-> FALSE]
    /\ faults = 0
    /\ passes = 0
    /\ env = [provision |-> ProvisionTimeoutEnv, delete |-> DeleteTimeoutEnv]
    /\ fn = "none"
    /\ arg = <<>>
    /\ ret = <<>>

-----------------------------------------------------------------------------
(* Reconcile: fetch the Service and dispatch *)

\* Reconcile without its type check
dispatch_NoTypeCheck(service) == IF service.deleting THEN "delete" ELSE "normal"

\* Reconcile without its deletion check
dispatch_NoDeletionCheck(service) ==
    IF service.type # ServiceTypeLoadBalancer THEN "skip" ELSE "normal"

\* the branch Reconcile takes for the Service it fetched
dispatch(service) ==
    IF service.type # ServiceTypeLoadBalancer THEN "skip"
    ELSE IF service.deleting THEN "delete"
    ELSE "normal"

\* a Service that is gone taken as a reason to remove the instance of its name
missingObject_Cleanup(id) ==
    Goto(id, [IdlePass EXCEPT !.pc = "DeleteLoadBalancer_List"],
         NewRecord("missing", NoService))

\* r.Get answered NotFound: `return ctrl.Result{}, nil`
missingObject(id) == FinishOK(id, NewRecord("missing", NoService))

\* Reconcile up to the first remote call of reconcileNormal or reconcileDelete
StartPass(id) ==
    /\ pass[id].pc = "idle"
    /\ UNCHANGED <<svc, instances, ctxDone, env, pure>>
    /\ \/ \E e \in ApiErrors :
            /\ faults < MaxFaults
            /\ faults' = faults + 1
            /\ FinishErr(id, [NewRecord("geterr", NoService)
                                EXCEPT !.fault = e], e)
       \/ /\ UNCHANGED faults
          /\ IF ~svc[id].exists
             THEN missingObject(id)
             ELSE IF dispatch(svc[id]) = "skip"
             THEN FinishOK(id, NewRecord("skip", svc[id]))
             ELSE IF dispatch(svc[id]) = "delete"
             THEN Goto(id, [IdlePass EXCEPT !.pc = "DeleteLoadBalancer_List"],
                       NewRecord("delete", svc[id]))
             ELSE Goto(id, [IdlePass EXCEPT
                              !.pc = "GetLoadBalancer_List", !.site = 1,
                              !.lbParams = extractLoadBalancerParams(
                                  Name(id), svc[id].ports,
                                  svc[id].annotations)],
                       NewRecord("normal", svc[id]))

\* prev: what the claims keep of the pass that ran before
Reconcile(id) ==
    /\ passes < MaxPasses
    /\ passes' = passes + 1
    /\ prev' = [prev EXCEPT ![id] = Summary(cur[id])]
    /\ StartPass(id)

-----------------------------------------------------------------------------
(* GetLoadBalancer: List by name and tags, then Get of instances[0] *)

\* reconcileNormal creating whatever the lookup found
afterLookup_AlwaysCreate(existing) == "CreateLoadBalancer_Create"

\* reconcileNormal: create when existingLB == nil, update otherwise
afterLookup(existing) ==
    IF existing THEN "UpdateLoadBalancer_List" ELSE "CreateLoadBalancer_Create"

GetLoadBalancer_List(id) ==
    /\ pass[id].pc = "GetLoadBalancer_List"
    /\ UNCHANGED <<svc, instances, prev, ctxDone, passes, env, pure>>
    /\ \/ \E e \in ApiErrors : Fail(id, e, e)
       \/ /\ UNCHANGED faults
          /\ IF ListInstances(Name(id)) = {}
             THEN \* return nil, nil
                  IF pass[id].site = 2
                  THEN Continue(id, [pass[id] EXCEPT !.pc = "GetInstanceByName_List"],
                                cur[id])
                  ELSE Continue(id, [pass[id] EXCEPT !.pc = afterLookup(FALSE)],
                                [cur[id] EXCEPT !.lookup = "absent"])
             ELSE \E x \in ListInstances(Name(id)) :
                    Goto(id, [pass[id] EXCEPT !.pc = "GetLoadBalancer_Get",
                                              !.instID = x], cur[id])

GetLoadBalancer_Get(id) ==
    /\ pass[id].pc = "GetLoadBalancer_Get"
    /\ UNCHANGED <<svc, instances, prev, ctxDone, passes, env, pure>>
    /\ \/ \E e \in ApiErrors : Fail(id, e, e)
       \/ /\ UNCHANGED faults
          /\ IF instances[pass[id].instID].state = "gone"
             THEN FinishErr(id, cur[id], Err("ResourceNotFound"))
             ELSE IF pass[id].site = 2
             THEN Continue(id, [pass[id] EXCEPT !.pc = "GetInstanceByName_List"],
                           cur[id])
             ELSE Continue(id, [pass[id] EXCEPT !.pc = afterLookup(TRUE)],
                           [cur[id] EXCEPT !.lookup = "present"])

-----------------------------------------------------------------------------
(* CreateLoadBalancer: Instances().Create, then the wait for "running" *)

\* the wait of CreateLoadBalancer giving up without an error
provisionTimeout_Silent(seconds) == NilErr

\* the error of CreateLoadBalancer when its wait reached the bound
provisionTimeout(seconds) ==
    Err("timed out waiting for load balancer to provision after "
        \o Itoa(seconds) \o " seconds")

\* the wait of CreateLoadBalancer ending at whatever state it sees
isRunning_AnyState(state) == TRUE

\* `currentInstance.State == "running"`
isRunning(state) == state = "running"

CreateLoadBalancer_Create(id) ==
    /\ pass[id].pc = "CreateLoadBalancer_Create"
    /\ UNCHANGED <<svc, prev, ctxDone, passes, env, pure>>
    /\ LET c == [cur[id] EXCEPT !.create = @ + 1, !.cfg = pass[id].lbParams]
       IN  \/ \E e \in ApiErrors :
                /\ faults < MaxFaults
                /\ faults' = faults + 1
                /\ FinishErr(id, [c EXCEPT !.fault = e], e)
                /\ UNCHANGED instances
           \/ /\ Len(instances) < MaxInstances
              /\ instances' = Append(instances, NewInstance(pass[id].lbParams, id))
              /\ Goto(id, [pass[id] EXCEPT !.pc = "CreateLoadBalancer_Poll",
                                        !.instID = Len(instances) + 1, !.i = 0],
                      [c EXCEPT !.created = Len(instances) + 1])
              /\ UNCHANGED faults

CreateLoadBalancer_Poll(id) ==
    /\ pass[id].pc = "CreateLoadBalancer_Poll"
    /\ UNCHANGED <<svc, instances, prev, ctxDone, passes, env, pure>>
    /\ IF pass[id].i >= maxIterations(timeoutSeconds(env.provision))
       THEN /\ FinishWith(id, cur[id], provisionTimeout(timeoutSeconds(env.provision)))
            /\ UNCHANGED faults
       ELSE IF ctxDone[id]
       THEN /\ FinishErr(id, cur[id], Err(
                  "context cancelled while waiting for load balancer to provision"))
            /\ UNCHANGED faults
       ELSE LET c == [cur[id] EXCEPT !.polls = @ + 1]
            IN  \/ \E e \in ApiErrors :
                     /\ faults < MaxFaults
                     /\ faults' = faults + 1
                     /\ FinishErr(id, [c EXCEPT !.fault = e], Wrap("error checking instance status", e))
                \/ /\ UNCHANGED faults
                   /\ LET state == instances[pass[id].instID].state
                          seen == [c EXCEPT !.observed = state]
                      IN  IF state = "gone"
                          THEN FinishErr(id, seen, Wrap("error checking instance status",
                                                        Err("ResourceNotFound")))
                          ELSE IF isRunning(state)
                          THEN Continue(id, [pass[id] EXCEPT
                                               !.pc = "GetLoadBalancer_List",
                                               !.site = 2, !.i = 0],
                                        [seen EXCEPT !.wrote = TRUE])
                          ELSE \* time.Sleep(10 * time.Second)
                               Goto(id, [pass[id] EXCEPT !.i = @ + 1], seen)

-----------------------------------------------------------------------------
(* UpdateLoadBalancer: List, then one UpdateMetadata on instances[0] *)

\* UpdateLoadBalancer answering an empty listing the way DeleteLoadBalancer does
updateWhenAbsent_Ignored(name) == NilErr

\* UpdateLoadBalancer on an empty listing
updateWhenAbsent(name) == Err("load balancer " \o name \o " not found")

UpdateLoadBalancer_List(id) ==
    /\ pass[id].pc = "UpdateLoadBalancer_List"
    /\ UNCHANGED <<svc, instances, prev, ctxDone, passes, env, pure>>
    /\ LET c == [cur[id] EXCEPT !.update = @ + 1, !.cfg = pass[id].lbParams]
       IN  \/ \E e \in ApiErrors :
                /\ faults < MaxFaults
                /\ faults' = faults + 1
                /\ FinishErr(id, [c EXCEPT !.fault = e], e)
           \/ /\ UNCHANGED faults
              /\ IF ListInstances(Name(id)) = {}
                 THEN IF updateWhenAbsent(Name(id)) = NilErr
                      THEN Continue(id, [pass[id] EXCEPT !.pc = "GetLoadBalancer_List",
                                                        !.site = 2], c)
                      ELSE FinishErr(id, c, updateWhenAbsent(Name(id)))
                 ELSE \E x \in ListInstances(Name(id)) :
                        Goto(id, [pass[id] EXCEPT
                                    !.pc = "UpdateLoadBalancer_UpdateMetadata",
                                    !.instID = x], c)

\* UpdateLoadBalancer waiting, after its metadata update, the way create does
UpdateLoadBalancer_UpdateMetadata_ThenWaits(id) ==
    /\ pass[id].pc = "UpdateLoadBalancer_UpdateMetadata"
    /\ UNCHANGED <<svc, prev, ctxDone, passes, env, pure>>
    /\ LET c == [cur[id] EXCEPT !.apiUpdate = @ + 1]
       IN  \/ /\ \E e \in ApiErrors :
                   /\ faults < MaxFaults
                   /\ faults' = faults + 1
                   /\ FinishErr(id, [c EXCEPT !.fault = e], e)
              /\ UNCHANGED instances
           \/ /\ UNCHANGED faults
              /\ IF instances[pass[id].instID].state = "gone"
                 THEN /\ FinishErr(id, c, Err("ResourceNotFound"))
                      /\ UNCHANGED instances
                 ELSE /\ instances' = [instances EXCEPT ![pass[id].instID].metadata =
                                         UpdateMetadata(@, updateMetadata(pass[id].lbParams))]
                      /\ Goto(id, [pass[id] EXCEPT !.pc = "CreateLoadBalancer_Poll",
                                                !.i = 0], c)

\* the remote store merges the document into the instance's metadata
UpdateLoadBalancer_UpdateMetadata(id) ==
    /\ pass[id].pc = "UpdateLoadBalancer_UpdateMetadata"
    /\ UNCHANGED <<svc, prev, ctxDone, passes, env, pure>>
    /\ LET c == [cur[id] EXCEPT !.apiUpdate = @ + 1]
       IN  \/ /\ \E e \in ApiErrors :
                   /\ faults < MaxFaults
                   /\ faults' = faults + 1
                   /\ FinishErr(id, [c EXCEPT !.fault = e], e)
              /\ UNCHANGED instances
           \/ /\ UNCHANGED faults
              /\ IF instances[pass[id].instID].state = "gone"
                 THEN /\ FinishErr(id, c, Err("ResourceNotFound"))
                      /\ UNCHANGED instances
                 ELSE /\ instances' = [instances EXCEPT ![pass[id].instID].metadata =
                                         UpdateMetadata(@, updateMetadata(pass[id].lbParams))]
                      /\ Continue(id, [pass[id] EXCEPT !.pc = "GetLoadBalancer_List",
                                                    !.site = 2],
                                  [c EXCEPT !.wrote = TRUE])

-----------------------------------------------------------------------------
(* GetInstanceByName and the status write of reconcileNormal *)

\* lbIP with a placeholder for an instance without addresses
statusIP_Placeholder(ips) == IF Len(ips) > 0 THEN selectIP(ips) ELSE "0.0.0.0"

\* lbIP of reconcileNormal; "" means that no status write follows
statusIP(ips) == IF Len(ips) > 0 THEN selectIP(ips) ELSE ""

\* the ingress list appended to
setIngress_Append(ingress, ip) == Append(ingress, ip)

\* `updatedService.Status.LoadBalancer.Ingress = []corev1.LoadBalancerIngress{{IP: lbIP}}`
setIngress(ingress, ip) == <<ip>>

GetInstanceByName_List(id) ==
    /\ pass[id].pc = "GetInstanceByName_List"
    /\ UNCHANGED <<svc, instances, prev, ctxDone, passes, env, pure>>
    /\ \/ \E e \in ApiErrors : Fail(id, e, e)
       \/ /\ UNCHANGED faults
          /\ IF ListInstances(Name(id)) = {}
             THEN \* lbInstance == nil: no status write
                  FinishOK(id, [cur[id] EXCEPT !.lbInstance.reached = TRUE])
             ELSE \E x \in ListInstances(Name(id)) :
                    Goto(id, [pass[id] EXCEPT !.pc = "GetInstanceByName_Get",
                                              !.instID = x], cur[id])

GetInstanceByName_Get(id) ==
    /\ pass[id].pc = "GetInstanceByName_Get"
    /\ UNCHANGED <<svc, instances, prev, ctxDone, passes, env, pure>>
    /\ \/ \E e \in ApiErrors : Fail(id, e, e)
       \/ /\ UNCHANGED faults
          /\ IF instances[pass[id].instID].state = "gone"
             THEN FinishErr(id, cur[id], Err("ResourceNotFound"))
             ELSE LET ips == instances[pass[id].instID].ips
                      c == [cur[id] EXCEPT !.lbInstance =
                              [reached |-> TRUE, found |-> TRUE, ips |-> ips]]
                  IN  IF statusIP(ips) # ""
                      THEN Continue(id, [pass[id] EXCEPT !.pc = "StatusUpdate",
                                                        !.ips = ips], c)
                      ELSE FinishOK(id, c)

\* r.Status().Update(ctx, updatedService)
StatusUpdate(id) ==
    /\ pass[id].pc = "StatusUpdate"
    /\ UNCHANGED <<instances, prev, ctxDone, passes, env, pure>>
    /\ LET c == [cur[id] EXCEPT !.status = @ + 1]
       IN  \/ /\ \E e \in ApiErrors :
                   /\ faults < MaxFaults
                   /\ faults' = faults + 1
                   /\ FinishErr(id, [c EXCEPT !.fault = e], e)
              /\ UNCHANGED svc
           \/ /\ UNCHANGED faults
              /\ IF ~svc[id].exists
                 THEN /\ FinishErr(id, c, Err(
                             "services \"" \o Name(id) \o "\" not found"))
                      /\ UNCHANGED svc
                 ELSE /\ svc' = [svc EXCEPT ![id].ingress =
                                   setIngress(@, statusIP(pass[id].ips))]
                      /\ FinishOK(id, c)

-----------------------------------------------------------------------------
(* DeleteLoadBalancer: List, Instances().Delete of instances[0], then the    *)
(* wait until the listing is empty                                          *)

\* DeleteLoadBalancer answering an empty listing the way UpdateLoadBalancer does
deleteWhenAbsent_NotFound(name) == Err("load balancer " \o name \o " not found")

\* the error of DeleteLoadBalancer when its wait reached the bound
deleteTimeout(name, seconds) ==
    Err("timed out waiting for load balancer " \o name \o " to be deleted after "
        \o Itoa(seconds) \o " seconds")

\* the wait of DeleteLoadBalancer looking for the deleted instance only
isDeleted_TargetGone(found, x) == x \notin found

\* `len(instances) == 0` of the wait of DeleteLoadBalancer
isDeleted(found, x) == found = {}

\* DeleteLoadBalancer on an empty listing: `return nil`
deleteWhenAbsent(name) == NilErr

DeleteLoadBalancer_List(id) ==
    /\ pass[id].pc = "DeleteLoadBalancer_List"
    /\ UNCHANGED <<svc, instances, prev, ctxDone, passes, env, pure>>
    /\ LET c == [cur[id] EXCEPT !.delete = @ + 1]
       IN  IF Name(id) = ""
           THEN /\ FinishErr(id, c, Err("load balancer name cannot be empty"))
                /\ UNCHANGED faults
           ELSE \/ \E e \in ApiErrors :
                     /\ faults < MaxFaults
                     /\ faults' = faults + 1
                     /\ FinishErr(id, [c EXCEPT !.fault = e], Wrap("failed to list instances", e))
                \/ /\ UNCHANGED faults
                   /\ IF ListInstances(Name(id)) = {}
                      THEN \* nothing to delete
                           FinishWith(id, [c EXCEPT !.lookup = "absent",
                                                    !.observed = "empty"],
                                      deleteWhenAbsent(Name(id)))
                      ELSE \E x \in ListInstances(Name(id)) :
                             Goto(id, [pass[id] EXCEPT
                                         !.pc = "DeleteLoadBalancer_Delete",
                                         !.instID = x],
                                  [c EXCEPT !.lookup = "present",
                                            !.observed = "listed"])

DeleteLoadBalancer_Delete(id) ==
    /\ pass[id].pc = "DeleteLoadBalancer_Delete"
    /\ UNCHANGED <<svc, prev, ctxDone, passes, env, pure>>
    /\ LET c == [cur[id] EXCEPT !.apiDelete = @ + 1]
           x == pass[id].instID
       IN  \/ \E e \in ApiErrors :
                /\ faults < MaxFaults
                /\ faults' = faults + 1
                /\ FinishErr(id, [c EXCEPT !.fault = e], Wrap("failed to delete instance " \o Itoa(x), e))
                /\ UNCHANGED instances
           \/ /\ UNCHANGED faults
              /\ IF instances[x].state = "gone"
                 THEN /\ FinishErr(id, c, Wrap("failed to delete instance " \o Itoa(x),
                                  Err("ResourceNotFound")))
                      /\ UNCHANGED instances
                 ELSE /\ instances' = [instances EXCEPT ![x].state = "deleting"]
                      /\ Goto(id, [pass[id] EXCEPT !.pc = "DeleteLoadBalancer_Poll",
                                                !.i = 0], c)

DeleteLoadBalancer_Poll(id) ==
    /\ pass[id].pc = "DeleteLoadBalancer_Poll"
    /\ UNCHANGED <<svc, instances, prev, ctxDone, passes, env, pure>>
    /\ IF pass[id].i >= maxIterations(timeoutSeconds(env.delete))
       THEN /\ FinishWith(id, cur[id],
                          deleteTimeout(Name(id), timeoutSeconds(env.delete)))
            /\ UNCHANGED faults
       ELSE IF ctxDone[id]
       THEN /\ FinishErr(id, cur[id], Err(
                  "context cancelled while waiting for load balancer to be deleted"))
            /\ UNCHANGED faults
       ELSE LET c == [cur[id] EXCEPT !.polls = @ + 1]
            IN  \/ \E e \in ApiErrors :
                     /\ faults < MaxFaults
                     /\ faults' = faults + 1
                     /\ FinishErr(id, [c EXCEPT !.fault = e], Wrap("failed to check if instance was deleted", e))
                \/ /\ UNCHANGED faults
                   /\ LET found == ListInstances(Name(id))
                          seen == [c EXCEPT !.observed =
                                     IF found = {} THEN "empty" ELSE "listed"]
                      IN  IF isDeleted(found, pass[id].instID)
                          THEN FinishOK(id, seen)
                          ELSE \* time.Sleep(10 * time.Second)
                               Goto(id, [pass[id] EXCEPT !.i = @ + 1], seen)

-----------------------------------------------------------------------------
(* The remote store and the orchestration layer *)

\* a provisioning instance comes up, with its addresses
InstanceRuns(x) ==
    /\ instances[x].state = "provisioning"
    /\ \E a \in AddrLists :
         instances' = [instances EXCEPT ![x].state = "running", ![x].ips = a]
    /\ UNCHANGED <<svc, pass, cur, prev, ctxDone, faults, passes, env, pure>>

\* an instance whose deletion was accepted leaves the listings
InstanceGone(x) ==
    /\ instances[x].state = "deleting"
    /\ instances' = [instances EXCEPT ![x].state = "gone", ![x].ips = <<>>,
                                      ![x].metadata = <<>>]
    /\ UNCHANGED <<svc, pass, cur, prev, ctxDone, faults, passes, env, pure>>

\* a delete request for the Service: the object is removed at once unless a
\* finalizer holds it, in which case it gets its deletion marker
ServiceDelete(id) ==
    /\ svc[id].exists
    /\ ~svc[id].deleting
    /\ svc' = [svc EXCEPT ![id] =
                 IF svc[id].finalizers = {}
                 THEN [@ EXCEPT !.exists = FALSE, !.ingress = <<>>]
                 ELSE [@ EXCEPT !.deleting = TRUE]]
    /\ UNCHANGED <<instances, pass, cur, prev, ctxDone, faults, passes, env, pure>>

Next ==
    \/ \E id \in Idents :
         \/ Reconcile(id)
         \/ GetLoadBalancer_List(id)
         \/ GetLoadBalancer_Get(id)
         \/ CreateLoadBalancer_Create(id)
         \/ CreateLoadBalancer_Poll(id)
         \/ UpdateLoadBalancer_List(id)
         \/ UpdateLoadBalancer_UpdateMetadata(id)
         \/ GetInstanceByName_List(id)
         \/ GetInstanceByName_Get(id)
         \/ StatusUpdate(id)
         \/ DeleteLoadBalancer_List(id)
         \/ DeleteLoadBalancer_Delete(id)
         \/ DeleteLoadBalancer_Poll(id)
         \/ ServiceDelete(id)
    \/ \E x \in 1..Len(instances) : InstanceRuns(x)
    \/ \E x \in 1..Len(instances) : InstanceGone(x)

Spec == Init /\ [][Next]_vars

-----------------------------------------------------------------------------
(* The controller re-running passes without end over Services that stay as   *)
(* they are, with workers that may crash                                     *)

InitLive ==
    /\ svc \in [Idents -> [exists : {TRUE}, type : ServiceTypes, deleting : {FALSE},
                           finalizers : {{Finalizer}},
                           ports : {PortsHTTP, PortsMixed},
                           annotations : {NoAnnotations, FullAnnotations},
                           ingress : {<<>>}]]
    /\ \A id \in Idents :
          /\ svc[id].ports = ShapeOf(id).ports
          /\ svc[id].annotations = ShapeOf(id).annotations
    /\ svc[<<"ns1", "a">>].type = ServiceTypeLoadBalancer
    /\ instances = <<>>
    /\ pass = [id \in Idents |-> IdlePass]
    /\ cur = [id \in Idents |-> NoRecord]
    /\ prev = [id \in Idents |-> Summary(NoRecord)]
    /\ ctxDone = [id \in Idents |-> FALSE]
    /\ faults = 0
    /\ passes = 0
    /\ env = [provision |-> ProvisionTimeoutEnv, delete |-> DeleteTimeoutEnv]
    /\ fn = "live"
    /\ arg = <<>>
    /\ ret = <<>>

\* the work queue hands the Service to a worker again
Requeue(id) ==
    /\ StartPass(id)
    /\ UNCHANGED <<passes, prev>>

\* the process dies while the pass for id is between two steps
Crash(id) ==
    /\ pass[id].pc # "idle"
    /\ faults < MaxFaults
    /\ faults' = faults + 1
    /\ Goto(id, IdlePass, [cur[id] EXCEPT !.done = TRUE])
    /\ UNCHANGED <<svc, instances, prev, ctxDone, passes, env, pure>>

PassStep(id) ==
    \/ GetLoadBalancer_List(id)
    \/ GetLoadBalancer_Get(id)
    \/ CreateLoadBalancer_Create(id)
    \/ CreateLoadBalancer_Poll(id)
    \/ UpdateLoadBalancer_List(id)
    \/ UpdateLoadBalancer_UpdateMetadata(id)
    \/ GetInstanceByName_List(id)
    \/ GetInstanceByName_Get(id)
    \/ StatusUpdate(id)

\* the x-th instance submitted, if there is one, gets to run with an address
Provisioned(x) ==
    /\ x \in 1..Len(instances)
    /\ InstanceRuns(x)
    /\ instances'[x].ips # <<>>

NextLive ==
    \/ \E id \in Idents :
         \/ Requeue(id)
         \/ Crash(id)
         \/ PassStep(id)
    \/ \E x \in 1..MaxInstances : Provisioned(x)

\* every pass is run again and goes on to its end unless it crashes, and an
\* instance that is provisioning gets to run
SpecLive ==
    /\ InitLive /\ [][NextLive]_vars
    /\ \A id \in Idents : WF_vars(Requeue(id)) /\ WF_vars(PassStep(id))
    /\ \A x \in 1..MaxInstances : WF_vars(Provisioned(x))

-----------------------------------------------------------------------------
(* The client called directly, with a context the caller may cancel, under   *)
(* any timeout setting and over stores that also hold foreign instances     *)

\* calls of the client made in one behaviour
MaxCalls == 1

\* settings of TRITON_PROVISION_TIMEOUT and TRITON_DELETE_TIMEOUT: unset, not a
\* number, not positive, below one interval, and one to three intervals
EnvInputs ==
    {[provision |-> "", delete |-> "abc"],
     [provision |-> "0", delete |-> "-5"],
     [provision |-> "5", delete |-> "10"],
     [provision |-> "25", delete |-> "20"],
     [provision |-> "30", delete |-> "9"]}

\* a running instance the controller created for the Service a
ManagedInstance ==
    [NewInstance(extractLoadBalancerParams("a", PortsHTTP, NoAnnotations),
                 <<"ns1", "a">>)
     EXCEPT !.state = "running", !.ips = <<"10.0.0.1", "203.0.113.1">>]

\* a running instance of the same name that somebody else created, with tags
ForeignInstance(tags) ==
    [ManagedInstance EXCEPT !.tags = tags, !.owner = <<"", "">>,
                            !.metadata = [k \in {"user-script"} |-> "#!/bin/sh"]]

\* tags short of the pair the listings filter on
OnlyLoadbalancerTag == [k \in {"loadbalancer"} |-> "true"]
OnlyManagedByTag == [k \in {"managed-by"} |-> "triton-loadbalancer-controller"]

ClientStores ==
    {<<>>,
     <<ManagedInstance>>,
     <<ManagedInstance, ManagedInstance>>,
     <<ForeignInstance(OnlyLoadbalancerTag)>>,
     <<ForeignInstance(OnlyManagedByTag), ManagedInstance>>,
     <<ManagedInstance, ForeignInstance(OnlyLoadbalancerTag)>>}

InitClient ==
    /\ svc = [id \in Idents |->
                [exists |-> TRUE, type |-> ServiceTypeLoadBalancer, deleting |-> FALSE,
                 finalizers |-> {Finalizer}, ports |-> ShapeOf(id).ports,
                 annotations |-> ShapeOf(id).annotations, ingress |-> <<>>]]
    /\ instances \in ClientStores
    /\ env \in EnvInputs
    /\ pass = [id \in Idents |-> IdlePass]
    /\ cur = [id \in Idents |-> NoRecord]
    /\ prev = [id \in Idents |-> Summary(NoRecord)]
    /\ ctxDone = [id \in Idents |-> FALSE]
    /\ faults = 0
    /\ passes = 0
    /\ fn = "none"
    /\ arg = <<>>
    /\ ret = <<>>

\* the first step of each operation of the client
entry(op) ==
    CASE op = "CreateLoadBalancer" -> "CreateLoadBalancer_Create"
      [] op = "UpdateLoadBalancer" -> "UpdateLoadBalancer_List"
      [] op = "DeleteLoadBalancer" -> "DeleteLoadBalancer_List"
      [] op = "GetLoadBalancer" -> "GetLoadBalancer_List"
      [] OTHER -> "GetInstanceByName_List"

\* a caller calls an operation of the client for the name of id, with a
\* context of its own; the calls follow one another
Call(id) ==
    /\ \A other \in Idents : pass[other].pc = "idle"
    /\ passes < MaxCalls
    /\ passes' = passes + 1
    /\ prev' = [prev EXCEPT ![id] = Summary(cur[id])]
    /\ ctxDone' = [ctxDone EXCEPT ![id] = FALSE]
    /\ \E op \in ClientOps :
          Goto(id, [IdlePass EXCEPT
                      !.pc = entry(op),
                      !.lbParams = extractLoadBalancerParams(
                                      Name(id), svc[id].ports, svc[id].annotations)],
               NewRecord(op, NoService))
    /\ UNCHANGED <<svc, instances, faults, env, pure>>

\* the caller cancels the context while the operation waits
Cancel(id) ==
    /\ pass[id].pc \in {"CreateLoadBalancer_Poll", "DeleteLoadBalancer_Poll"}
    /\ ~ctxDone[id]
    /\ ctxDone' = [ctxDone EXCEPT ![id] = TRUE]
    /\ cur' = [cur EXCEPT ![id].cancelledAt = cur[id].polls]
    /\ UNCHANGED <<svc, instances, pass, prev, faults, passes, env, pure>>

NextClient ==
    \/ \E id \in Idents :
         \/ Call(id)
         \/ Cancel(id)
         \/ GetLoadBalancer_List(id)
         \/ GetLoadBalancer_Get(id)
         \/ CreateLoadBalancer_Create(id)
         \/ CreateLoadBalancer_Poll(id)
         \/ UpdateLoadBalancer_List(id)
         \/ UpdateLoadBalancer_UpdateMetadata(id)
         \/ GetInstanceByName_List(id)
         \/ GetInstanceByName_Get(id)
         \/ DeleteLoadBalancer_List(id)
         \/ DeleteLoadBalancer_Delete(id)
         \/ DeleteLoadBalancer_Poll(id)
    \/ \E x \in 1..Len(instances) : InstanceRuns(x)
    \/ \E x \in 1..Len(instances) : InstanceGone(x)

SpecClient == InitClient /\ [][NextClient]_vars

\* the wait loops run in the caller's goroutine: every sleep returns and the
\* next tick is taken
FairClient ==
    /\ SpecClient
    /\ \A id \in Idents :
          /\ WF_vars(CreateLoadBalancer_Poll(id))
          /\ WF_vars(DeleteLoadBalancer_Poll(id))

-----------------------------------------------------------------------------
(* The pure functions, applied to inputs drawn from bounded sets *)

\* longest address list drawn
MaxAddrs == 3

\* addresses: private by each prefix, public, and public ones that share the
\* first characters of a private prefix
Addrs == {"10.0.0.1", "192.168.1.5", "172.16.0.9", "203.0.113.1", "100.64.0.1",
          "192.0.2.1"}

AddrInputs == UNION {[1..n -> Addrs] : n \in 1..MaxAddrs}

\* error messages: prefix, core and suffix; only the cores of TransientCores
\* bring one of the three substrings into the message
ErrPrefixes == {"", "failed to list instances: ", "error checking instance status: "}
ErrSuffixes == {"", " exceeded"}
TransientCores == {"timeout", "connection timeout", "connection refused",
                   "rate limit", "i/o timeout"}
PermanentCores == {"invalid credentials", "ResourceNotFound", "time out",
                   "timed out waiting for load balancer to provision after 10 seconds",
                   "connection reset", "ratelimit", "load balancer a not found"}
ErrInputs ==
    {[nil |-> TRUE, pre |-> "", core |-> "", post |-> ""]}
    \cup [nil : {FALSE}, pre : ErrPrefixes, core : TransientCores \cup PermanentCores,
          post : ErrSuffixes]

ErrOf(in) == IF in.nil THEN NilErr ELSE Err(in.pre \o in.core \o in.post)

\* longest mapping list and longest list of portmap entries drawn
MaxMappings == 2
MaxEntries == 2

\* mappings as extractLoadBalancerParams builds them: one of the three types,
\* a port number, the name of a Service, a target port or 0
Mappings ==
    [Type : {"http", "https", "tcp"}, ListenPort : {80, 443, 3306},
     BackendName : {"a", "web-service"}, BackendPort : {0, 8443}]

MappingInputs == UNION {[1..n -> Mappings] : n \in 0..MaxMappings}

\* entries of a stored portmap string: well-formed ones, entries the decoder
\* has a rule for, and entries that hold "://" more than once
Entries ==
    {"http://80:svc", "https://443:svc:8443", "tcp://3306:db:x", "bad-entry",
     "tcp://notanumber:svc", "http://80", "", "http://80:svc://x",
     "tcp://3306://db:5432"}

EntryInputs == UNION {[1..n -> Entries] : n \in 1..MaxEntries}

\* longest port list drawn
MaxPorts == 2

Ports ==
    [name : {"", "http", "https", "tcp"}, port : {80, 443, 3306, 9090},
     targetPort : {0, 8080}]

PortInputs == UNION {[1..n -> Ports] : n \in 0..MaxPorts}

\* values of the metrics_acl annotation and of the metrics_acl metadata key
AclInputs ==
    {"", "10.0.0.0/8", "10.0.0.0/8 192.168.0.0/16", "10.0.0.0/8,192.168.0.0/16",
     " 10.0.0.0/8,, 192.168.0.0/16 ", "10.0.0.0/8\t192.168.0.0/16",
     "10.0.0.0/8\n192.168.0.0/16"}

AnnotationInputs ==
    {NoAnnotations, FullAnnotations}
    \cup {("cloud.tritoncompute/max_rs" :> m) : m \in {"64", "abc", "6x", "", "-5"}}
    \cup {("cloud.tritoncompute/max_rs" :> "abc")
           @@ ("cloud.tritoncompute/certificate_name" :> "example.com")
           @@ ("cloud.tritoncompute/metrics_acl" :> "10.0.0.0/8,192.168.0.0/16")}
    \cup {("cloud.tritoncompute/metrics_acl" :> a) : a \in AclInputs}

\* Services: every port list under one name without annotations, and a few port
\* lists under every name and annotation map
ServiceInputs ==
    [name : {"a"}, ports : PortInputs, annotations : {NoAnnotations}]
    \cup [name : {"a", "web-service"}, ports : {<<>>, PortsHTTP, PortsMixed},
          annotations : AnnotationInputs]

\* metadata of a stored instance: what create writes for an extracted
\* configuration, and documents holding each metrics_acl value
MetadataInputs ==
    {[name |-> "a", metadata |-> createMetadata(extractLoadBalancerParams("a", pt, an))] :
        pt \in {<<>>, PortsHTTP, PortsMixed}, an \in AnnotationInputs}
    \cup {[name |-> "a",
           metadata |-> ("cloud.tritoncompute:loadbalancer" :> "true")
                        @@ ("cloud.tritoncompute:metrics_acl" :> a)] : a \in AclInputs}

\* configurations extractLoadBalancerParams gives
ConfigInputs ==
    {extractLoadBalancerParams("a", pt, an) :
        pt \in {<<>>, PortsHTTP, PortsMixed}, an \in AnnotationInputs}

\* values of TRITON_PROVISION_TIMEOUT and TRITON_DELETE_TIMEOUT
TimeoutInputs == {"", "abc", "12x", "0", "-5", "1", "5", "10", "45", "600"}

InitPure ==
    /\ svc = [id \in Idents |->
                [exists |-> TRUE, type |-> ServiceTypeLoadBalancer, deleting |-> FALSE,
                 finalizers |-> {Finalizer}, ports |-> ShapeOf(id).ports,
                 annotations |-> ShapeOf(id).annotations, ingress |-> <<>>]]
    /\ instances = <<>>
    /\ pass = [id \in Idents |-> IdlePass]
    /\ cur = [id \in Idents |-> NoRecord]
    /\ prev = [id \in Idents |-> Summary(NoRecord)]
    /\ ctxDone = [id \in Idents |-> FALSE]
    /\ faults = 0
    /\ passes = 0
    /\ env = [provision |-> ProvisionTimeoutEnv, delete |-> DeleteTimeoutEnv]
    /\ ret = <<>>
    /\ \/ fn = "isTransientError" /\ arg \in ErrInputs
       \/ fn = "selectIP" /\ arg \in AddrInputs
       \/ fn = "portmapString" /\ arg \in MappingInputs
       \/ fn = "parsePortMap" /\ arg \in EntryInputs
       \/ fn = "extractLoadBalancerParams" /\ arg \in ServiceInputs
       \/ fn = "GetLoadBalancer" /\ arg \in MetadataInputs
       \/ fn = "metadata" /\ arg \in ConfigInputs
       \/ fn = "timeoutSeconds" /\ arg \in [provision : TimeoutInputs, delete : TimeoutInputs]
       \/ fn = "UpdateLoadBalancer" /\ arg \in [from : ConfigInputs, to : ConfigInputs]

Apply_isTransientError ==
    /\ fn = "isTransientError"
    /\ ret = <<>>
    /\ ret' = <<isTransientError(ErrOf(arg))>>
    /\ UNCHANGED <<sys, fn, arg>>

Apply_selectIP ==
    /\ fn = "selectIP"
    /\ ret = <<>>
    /\ ret' = <<selectIP(arg)>>
    /\ UNCHANGED <<sys, fn, arg>>

\* the portmap string of a mapping list, as create and update store it, read
\* back by GetLoadBalancer
Apply_portmapString ==
    /\ fn = "portmapString"
    /\ ret = <<>>
    /\ ret' = <<parsePortMap(portmapString(arg))>>
    /\ UNCHANGED <<sys, fn, arg>>

\* parsePortMap on the stored string whose comma-separated entries are arg
Apply_parsePortMap ==
    /\ fn = "parsePortMap"
    /\ ret = <<>>
    /\ ret' = <<parsePortMap(joinComma(arg))>>
    /\ UNCHANGED <<sys, fn, arg>>

\* extractLoadBalancerParams: the configuration and the error it returns
Apply_extractLoadBalancerParams ==
    /\ fn = "extractLoadBalancerParams"
    /\ ret = <<>>
    /\ ret' = <<[params |-> extractLoadBalancerParams(arg.name, arg.ports, arg.annotations),
                 err |-> NilErr]>>
    /\ UNCHANGED <<sys, fn, arg>>

\* GetLoadBalancer once Instances().Get has returned the instance
Apply_GetLoadBalancer ==
    /\ fn = "GetLoadBalancer"
    /\ ret = <<>>
    /\ ret' = <<decodeParams(arg.name, arg.metadata)>>
    /\ UNCHANGED <<sys, fn, arg>>

\* the documents CreateLoadBalancer and UpdateLoadBalancer build for arg
Apply_metadata ==
    /\ fn = "metadata"
    /\ ret = <<>>
    /\ ret' = <<createMetadata(arg), updateMetadata(arg)>>
    /\ UNCHANGED <<sys, fn, arg>>

\* the timeouts of the create wait and of the delete wait
Apply_timeoutSeconds ==
    /\ fn = "timeoutSeconds"
    /\ ret = <<>>
    /\ ret' = <<[provision |-> timeoutSeconds(arg.provision),
                 delete |-> timeoutSeconds(arg.delete)]>>
    /\ UNCHANGED <<sys, fn, arg>>

\* UpdateLoadBalancer(arg.to) on the instance created from arg.from, then
\* GetLoadBalancer
Apply_UpdateLoadBalancer ==
    /\ fn = "UpdateLoadBalancer"
    /\ ret = <<>>
    /\ ret' = <<decodeParams("a", UpdateMetadata(createMetadata(arg.from),
                                                 updateMetadata(arg.to)))>>
    /\ UNCHANGED <<sys, fn, arg>>

NextPure ==
    \/ Apply_isTransientError
    \/ Apply_selectIP
    \/ Apply_portmapString
    \/ Apply_parsePortMap
    \/ Apply_extractLoadBalancerParams
    \/ Apply_GetLoadBalancer
    \/ Apply_metadata
    \/ Apply_timeoutSeconds
    \/ Apply_UpdateLoadBalancer

SpecPure == InitPure /\ [][NextPure]_vars

-----------------------------------------------------------------------------
(* Claims *)

\* the requeue delay the controller's tests expect after a transient failure
RequeueDelay == 30

\* the pass recorded in cur[id] fetched a LoadBalancer Service without / with
\* deletion marker
NormalCase(id) == cur[id].type = ServiceTypeLoadBalancer /\ ~cur[id].deleting
DeleteCase(id) == cur[id].type = ServiceTypeLoadBalancer /\ cur[id].deleting

\* every instance ever submitted under the name of id was submitted by id's passes
OwnName(id) ==
    \A x \in 1..Len(instances) :
        instances[x].name = Name(id) => instances[x].owner = id

\* two consecutive normal passes of id: the first created, nothing but id's own
\* passes touched the name, no remote call of the second failed, the object is
\* unchanged
TwoPasses(id) ==
    /\ prev[id].kind = "normal" /\ prev[id].create = 1 /\ prev[id].ok
    /\ cur[id].done /\ NormalCase(id) /\ cur[id].fault = NilErr
    /\ svc[id].exists /\ ~svc[id].deleting
    /\ OwnName(id)
    /\ \A x \in 1..Len(instances) :
          instances[x].name = Name(id) => instances[x].state \in {"provisioning", "running"}

\* C1: of two consecutive passes for an unchanged LoadBalancer object that start
\* from a store without a managed resource of its name, the first issues the one
\* and only create, the second issues an update, no create, and returns no error
C1_ReconcileIdempotent ==
    \A id \in Idents :
        TwoPasses(id) =>
            /\ cur[id].create = 0
            /\ cur[id].update = 1
            /\ prev[id].create + cur[id].create = 1
            /\ cur[id].res.err = NilErr

C1_Witness ==
    \E id \in Idents : TwoPasses(id) /\ cur[id].update = 1 /\ cur[id].status = 1

\* C2: in a pass for a LoadBalancer object without deletion marker the lookup
\* precedes every remote write; absent gives exactly one create and no update,
\* present exactly one update and no create (also when the stored configuration
\* equals the derived one); the configuration passed is the one extracted from
\* the object; no delete is issued
C2_CreateOrUpdate ==
    \A id \in Idents :
        NormalCase(id) =>
            /\ cur[id].create + cur[id].update > 0 => cur[id].lookup # "none"
            /\ cur[id].lookup = "none" => cur[id].create = 0 /\ cur[id].update = 0
            /\ cur[id].lookup = "absent" =>
                  /\ cur[id].update = 0 /\ cur[id].create <= 1
                  /\ cur[id].done => cur[id].create = 1
            /\ cur[id].lookup = "present" =>
                  /\ cur[id].create = 0 /\ cur[id].update <= 1
                  /\ cur[id].done => cur[id].update = 1
            /\ cur[id].create + cur[id].update > 0 =>
                  cur[id].cfg = extractLoadBalancerParams(
                                    Name(id), svc[id].ports, svc[id].annotations)
            /\ cur[id].delete = 0 /\ cur[id].apiDelete = 0

\* an update of the instance whose stored document already is the derived one
C2_Witness ==
    \E id \in Idents :
        /\ NormalCase(id) /\ cur[id].done /\ cur[id].err = NilErr
        /\ cur[id].lookup = "present" /\ cur[id].update = 1
        /\ prev[id].kind = "none"
        /\ Len(instances) = 1
        /\ instances[1].metadata = createMetadata(cur[id].cfg)

\* C3: whenever no pass is running, at most one managed instance is listed per name
C3_OnePerName ==
    (\A id \in Idents : pass[id].pc = "idle") =>
        \A id \in Idents : Cardinality(ListInstances(Name(id))) <= 1

\* C4: a pass for a LoadBalancer object with deletion marker calls
\* DeleteLoadBalancer exactly once, issues no create, no update and no status
\* write, and returns success without requeue when the delete succeeded
C4_DeletionPass ==
    \A id \in Idents :
        DeleteCase(id) =>
            /\ cur[id].create = 0 /\ cur[id].update = 0 /\ cur[id].status = 0
            /\ cur[id].delete <= 1
            /\ cur[id].done => cur[id].delete = 1
            /\ cur[id].done /\ cur[id].err = NilErr =>
                  cur[id].res = [RequeueAfter |-> 0, err |-> NilErr]

C4_Witness ==
    \E id \in Idents :
        /\ DeleteCase(id) /\ cur[id].done /\ cur[id].err = NilErr
        /\ cur[id].delete = 1 /\ cur[id].apiDelete = 1 /\ cur[id].polls = 1
        /\ svc[id].ingress # <<>>

\* C5: DeleteLoadBalancer whose listing is empty returns success without a
\* remote delete and without polling; a deletion pass repeated after a
\* successful one succeeds and writes nothing
C5_DeleteIdempotent ==
    \A id \in Idents :
        /\ cur[id].delete = 1 /\ cur[id].lookup = "absent" =>
              /\ cur[id].done /\ cur[id].err = NilErr
              /\ cur[id].apiDelete = 0 /\ cur[id].polls = 0
        /\ ( /\ prev[id].kind = "delete" /\ prev[id].ok
             /\ cur[id].kind = "delete" /\ cur[id].done /\ cur[id].fault = NilErr
             /\ OwnName(id) ) =>
              /\ cur[id].lookup = "absent" /\ cur[id].res.err = NilErr
              /\ cur[id].apiDelete = 0 /\ cur[id].polls = 0
              /\ cur[id].create = 0 /\ cur[id].update = 0 /\ cur[id].status = 0

\* a deletion pass repeated after one that deleted an instance
C5_Witness ==
    \E id \in Idents :
        /\ prev[id].kind = "delete" /\ prev[id].ok
        /\ cur[id].kind = "delete" /\ cur[id].done /\ cur[id].lookup = "absent"
        /\ OwnName(id)
        /\ \E x \in 1..Len(instances) :
              instances[x].name = Name(id) /\ instances[x].state = "gone"

\* C6: a pass in which a remote call failed with a transient error returns no
\* error and asks for a requeue after 30 seconds
C6_TransientRequeue ==
    \A id \in Idents :
        ( /\ cur[id].done /\ cur[id].kind \in {"normal", "delete"}
          /\ isTransientError(cur[id].fault) ) =>
            cur[id].res = [RequeueAfter |-> RequeueDelay, err |-> NilErr]

\* C7: a pass in which a remote call failed with a non-transient error returns
\* that error and asks for no requeue of its own
C7_PermanentError ==
    \A id \in Idents :
        ( /\ cur[id].done /\ cur[id].kind \in {"normal", "delete"}
          /\ cur[id].fault # NilErr /\ ~isTransientError(cur[id].fault) ) =>
            /\ cur[id].res.err # NilErr
            /\ Contains(Msg(cur[id].res.err), Msg(cur[id].fault))
            /\ cur[id].res.RequeueAfter = 0

\* a create call that failed for good
C7_Witness ==
    \E id \in Idents :
        /\ cur[id].done /\ cur[id].create = 1 /\ cur[id].created = 0
        /\ cur[id].fault = Err("invalid credentials")

\* C8: isTransientError is true exactly for the errors whose message holds
\* "timeout", "connection refused" or "rate limit", and false for nil
C8_TransientClassification ==
    (fn = "isTransientError" /\ ret # <<>>) =>
        ret[1] = (~arg.nil /\ arg.core \in TransientCores)

\* a transient core wrapped by a prefix and followed by a suffix
C8_Witness ==
    /\ fn = "isTransientError" /\ ret = <<TRUE>>
    /\ arg.pre # "" /\ arg.post # "" /\ arg.core = "rate limit"

\* C9: the object of an identity whose pass submitted an instance does not
\* disappear while that instance is not gone
C9_CleanupBeforeDisappearance ==
    \A id \in Idents :
        \A x \in {cur[id].created, prev[id].created} \ {0} :
            ~svc[id].exists => instances[x].state = "gone"

\* C10: of a non-empty address list, the address selected for the status is the
\* first that starts with none of "10.", "192.168.", "172.", and the first of
\* the list when every address starts with one of them
C10_AddressSelection ==
    (fn = "selectIP" /\ ret # <<>>) =>
        LET pub == {i \in 1..Len(arg) :
                      \A p \in {"10.", "192.168.", "172."} : ~HasPrefix(arg[i], p)}
        IN  ret[1] = IF pub = {} THEN arg[1]
                     ELSE arg[CHOOSE i \in pub : \A j \in pub : i <= j]

\* two private addresses, one of them by "172.", before the public one
C10_Witness ==
    /\ fn = "selectIP" /\ ret = <<"192.0.2.1">>
    /\ arg = <<"172.16.0.9", "10.0.0.1", "192.0.2.1">>

\* C11: a normal pass whose create or update succeeded and whose
\* GetInstanceByName found no instance, or one without addresses, writes no
\* status, leaves the status of the object as it was, and returns success
C11_NoAddressNoStatus ==
    \A id \in Idents :
        ( /\ NormalCase(id) /\ cur[id].done /\ cur[id].wrote
          /\ cur[id].lbInstance.reached
          /\ ~cur[id].lbInstance.found \/ cur[id].lbInstance.ips = <<>> ) =>
            /\ cur[id].status = 0
            /\ cur[id].res = [RequeueAfter |-> 0, err |-> NilErr]
            /\ svc[id].exists => svc[id].ingress = cur[id].ingress0

\* the instance vanished after the update: the status written earlier stays
C11_Witness ==
    \E id \in Idents :
        /\ NormalCase(id) /\ cur[id].done /\ cur[id].update = 1 /\ cur[id].wrote
        /\ cur[id].lbInstance.reached /\ ~cur[id].lbInstance.found
        /\ svc[id].exists /\ svc[id].ingress = <<"203.0.113.1">>

\* C12: the status of an object never holds more than one ingress entry, and
\* after a successful normal pass that found the instance with at least one
\* address it holds exactly one, a non-empty address of that instance
C12_SingleIngress ==
    \A id \in Idents :
        svc[id].exists =>
            /\ Len(svc[id].ingress) <= 1
            /\ ( /\ NormalCase(id) /\ cur[id].done /\ cur[id].err = NilErr
                 /\ cur[id].lbInstance.found /\ Len(cur[id].lbInstance.ips) > 0 ) =>
                  /\ Len(svc[id].ingress) = 1
                  /\ svc[id].ingress[1] # ""
                  /\ \E i \in 1..Len(cur[id].lbInstance.ips) :
                        cur[id].lbInstance.ips[i] = svc[id].ingress[1]

\* a second successful pass wrote the status over the entry of the first
C12_Witness ==
    \E id \in Idents :
        /\ prev[id].kind = "normal" /\ prev[id].ok
        /\ NormalCase(id) /\ cur[id].done /\ cur[id].err = NilErr
        /\ cur[id].ingress0 # <<>> /\ cur[id].status = 1
        /\ svc[id].exists /\ Len(svc[id].ingress) = 1

\* C13: a normal pass writes the status only after its create or update
\* returned nil and GetInstanceByName returned the instance; a pass that ends
\* with an error leaves the status of the object as it was
C13_StatusAfterSuccess ==
    \A id \in Idents :
        cur[id].kind = "normal" =>
            /\ cur[id].status > 0 =>
                  /\ cur[id].status = 1
                  /\ cur[id].wrote /\ cur[id].create + cur[id].update = 1
                  /\ cur[id].lbInstance.found
            /\ (cur[id].done /\ cur[id].err # NilErr /\ svc[id].exists) =>
                  svc[id].ingress = cur[id].ingress0

\* the re-fetch after a successful update failed: the earlier status stays
C13_Witness ==
    \E id \in Idents :
        /\ cur[id].kind = "normal" /\ cur[id].done /\ cur[id].wrote
        /\ cur[id].fault # NilErr /\ ~cur[id].lbInstance.reached
        /\ cur[id].status = 0
        /\ svc[id].exists /\ svc[id].ingress = <<"203.0.113.1">>

\* C14: a pass for an object that is not of type LoadBalancer returns success
\* without requeue and makes no remote call and no status write, with or
\* without deletion marker, whether or not a managed instance of its name exists
C14_NonLoadBalancerIgnored ==
    \A id \in Idents :
        (cur[id].kind \in {"skip", "normal", "delete"}
            /\ cur[id].type # ServiceTypeLoadBalancer) =>
            /\ cur[id].done
            /\ cur[id].res = [RequeueAfter |-> 0, err |-> NilErr]
            /\ cur[id].lookup = "none"
            /\ cur[id].create = 0 /\ cur[id].update = 0 /\ cur[id].delete = 0
            /\ cur[id].apiDelete = 0 /\ cur[id].status = 0

\* a pass for a ClusterIP object with deletion marker while a managed instance
\* of its name is listed
C14_Witness ==
    \E id \in Idents :
        /\ cur[id].kind = "skip" /\ cur[id].done /\ cur[id].deleting
        /\ cur[id].type # ServiceTypeLoadBalancer
        /\ ListInstances(Name(id)) # {}

\* C15: CreateLoadBalancer returns nil only after a status check of that call
\* saw the instance it submitted in state "running"
C15_CreateSuccessMeansReady ==
    \A id \in Idents :
        /\ (cur[id].create = 1 /\ cur[id].wrote) =>
              /\ cur[id].created # 0 /\ cur[id].polls >= 1
              /\ cur[id].observed = "running"
        /\ ( /\ cur[id].kind = "CreateLoadBalancer"
             /\ cur[id].done /\ cur[id].err = NilErr ) =>
              cur[id].wrote /\ cur[id].observed = "running"

\* a create that saw the instance provisioning before it saw it running
C15_Witness ==
    \E id \in Idents :
        /\ cur[id].kind = "CreateLoadBalancer" /\ cur[id].done
        /\ cur[id].err = NilErr /\ cur[id].polls >= 2
        /\ instances[cur[id].created].state = "running"

\* C16: DeleteLoadBalancer returns nil only after a listing by name and tags
\* made in that call came back empty
C16_DeleteSuccessMeansAbsent ==
    \A id \in Idents :
        (cur[id].delete = 1 /\ cur[id].done /\ cur[id].err = NilErr) =>
            cur[id].observed = "empty"

\* two managed instances share the name: one was deleted, the other is still
\* listed, and the call did not return nil
C16_Witness ==
    \E id \in Idents :
        /\ cur[id].kind = "DeleteLoadBalancer" /\ cur[id].done
        /\ cur[id].apiDelete = 1 /\ cur[id].fault = NilErr
        /\ cur[id].err # NilErr /\ cur[id].observed = "listed"
        /\ \E x \in 1..Len(instances) :
              instances[x].name = Name(id) /\ instances[x].state = "gone"
        /\ ListInstances(Name(id)) # {}

\* the timeout setting the wait loop of the call recorded in cur[id] reads
WaitSetting(id) ==
    IF cur[id].create = 1 THEN env.provision ELSE env.delete

\* max(1, T div 10) for the configured timeout T
CheckBound(id) ==
    LET T == timeoutSeconds(WaitSetting(id))
    IN  IF T \div 10 >= 1 THEN T \div 10 ELSE 1

InWait(id) ==
    pass[id].pc \in {"CreateLoadBalancer_Poll", "DeleteLoadBalancer_Poll"}

\* C17: a wait loop makes at most max(1, T div 10) checks, one 10-second sleep
\* after each check that does not end it, and it ends
C17_BoundedPolling ==
    /\ [](\A id \in Idents :
            /\ cur[id].polls <= CheckBound(id)
            /\ InWait(id) => pass[id].i = cur[id].polls)
    /\ \A id \in Idents : InWait(id) ~> ~InWait(id)

\* the thirty checks of an unset timeout
C17_Witness ==
    \E id \in Idents :
        /\ cur[id].kind = "CreateLoadBalancer" /\ cur[id].done
        /\ env.provision = "" /\ cur[id].polls = 30

\* the wait loop of the pass recorded in cur[id] made its last check without
\* seeing what it waits for
TimedOut(id) ==
    /\ cur[id].done /\ cur[id].fault = NilErr
    /\ cur[id].polls = CheckBound(id)
    /\ cur[id].observed \in {"provisioning", "deleting", "listed"}

\* C18: a create or delete whose wait loop reached its bound returns the
\* timeout error, never nil, and the pass returns that error, without a requeue
\* of its own and without a status write
C18_TimeoutIsError ==
    \A id \in Idents :
        TimedOut(id) =>
            /\ cur[id].err # NilErr
            /\ Contains(Msg(cur[id].err), "timed out waiting for load balancer")
            /\ cur[id].kind \in {"normal", "delete"} =>
                  /\ cur[id].res = [RequeueAfter |-> 0, err |-> cur[id].err]
                  /\ ~isTransientError(cur[id].err)
                  /\ cur[id].status = 0

\* a deletion pass whose instance stayed listed
C18_Witness ==
    \E id \in Idents :
        /\ cur[id].kind = "delete" /\ TimedOut(id) /\ cur[id].apiDelete = 1
        /\ ListInstances(Name(id)) # {}

\* C19: an operation whose context was cancelled during its wait makes no
\* further check and returns the cancelled outcome
C19_CancelledOutcome ==
    \A id \in Idents :
        (cur[id].done /\ cur[id].cancelledAt >= 0) =>
            /\ cur[id].polls = cur[id].cancelledAt
            /\ cur[id].err \in
                  {Err("context cancelled while waiting for load balancer to provision"),
                   Err("context cancelled while waiting for load balancer to be deleted")}

\* the two tags of a managed instance
Owned(instance) ==
    /\ {"managed-by", "loadbalancer"} \subseteq DOMAIN instance.tags
    /\ instance.tags["managed-by"] = "triton-loadbalancer-controller"
    /\ instance.tags["loadbalancer"] = "true"

\* C20: no step changes an instance that lacks one of the two tags, every
\* instance a step fetches, updates or deletes has the name asked for and both
\* tags, and every instance a step adds carries both tags
C20_OwnershipScoping ==
    [][ /\ \A x \in 1..Len(instances) :
              ~Owned(instances[x]) => instances'[x] = instances[x]
        /\ \A x \in (Len(instances) + 1)..Len(instances') : Owned(instances'[x])
        /\ \A id \in Idents :
              pass'[id].pc \in {"GetLoadBalancer_Get", "GetInstanceByName_Get",
                                "UpdateLoadBalancer_UpdateMetadata",
                                "DeleteLoadBalancer_Delete",
                                "DeleteLoadBalancer_Poll"} =>
                  /\ Owned(instances'[pass'[id].instID])
                  /\ instances'[pass'[id].instID].name = Name(id) ]_vars

\* a delete that found nothing while a running instance of the name with one
\* of the two tags exists
C20_Witness ==
    \E id \in Idents :
        /\ cur[id].kind = "DeleteLoadBalancer" /\ cur[id].done
        /\ cur[id].err = NilErr /\ cur[id].lookup = "absent"
        /\ \E x \in 1..Len(instances) :
              /\ instances[x].name = Name(id) /\ instances[x].state = "running"
              /\ ~Owned(instances[x])

\* C21: the instance a pass has just updated, or has asked the store to delete,
\* was submitted by a pass of the same identity
C21_IdentityIsolation ==
    \A id \in Idents :
        ( \/ /\ pass[id].pc = "GetLoadBalancer_List" /\ pass[id].site = 2
             /\ cur[id].update = 1 /\ cur[id].wrote
          \/ pass[id].pc = "DeleteLoadBalancer_Poll" ) =>
            instances[pass[id].instID].owner = id

\* C23: UpdateLoadBalancer makes at most one UpdateMetadata call, exactly one
\* when its listing found a managed instance, submits and deletes no instance,
\* makes no status check of a wait, and returns what that one call returned
C23_UpdateNarrow ==
    \A id \in Idents :
        cur[id].kind = "UpdateLoadBalancer" =>
            /\ cur[id].apiUpdate <= 1
            /\ cur[id].created = 0 /\ cur[id].apiDelete = 0 /\ cur[id].polls = 0
            /\ ~InWait(id)
            /\ cur[id].done =>
                  /\ cur[id].apiUpdate = 0 => cur[id].err # NilErr
                  /\ (cur[id].apiUpdate = 1 /\ cur[id].fault # NilErr) =>
                        cur[id].err = cur[id].fault
                  /\ cur[id].err = NilErr => cur[id].apiUpdate = 1 /\ cur[id].wrote

\* an update that rewrote the metadata of the one managed instance
C23_Witness ==
    \E id \in Idents :
        /\ cur[id].kind = "UpdateLoadBalancer" /\ cur[id].done
        /\ cur[id].err = NilErr /\ cur[id].apiUpdate = 1
        /\ Len(instances) = 1
        /\ instances[1].metadata = updateMetadata(cur[id].cfg)


-----------------------------------------------------------------------------
(* The portmap codec *)

Decoded(item) ==
    CASE item = "http://80:svc" ->
            <<[Type |-> "http", ListenPort |-> 80, BackendName |-> "svc", BackendPort |-> 0]>>
      [] item = "https://443:svc:8443" ->
            <<[Type |-> "https", ListenPort |-> 443, BackendName |-> "svc",
               BackendPort |-> 8443]>>
      [] item = "tcp://3306:db:x" ->
            <<[Type |-> "tcp", ListenPort |-> 3306, BackendName |-> "db", BackendPort |-> 0]>>
      [] item \in {"bad-entry", "http://80", "tcp://notanumber:svc", ""} -> <<>>

RuledEntries ==
    {"http://80:svc", "https://443:svc:8443", "tcp://3306:db:x", "bad-entry", "http://80",
     "tcp://notanumber:svc", ""}

RECURSIVE DecodedAll(_)
DecodedAll(entries) ==
    IF entries = <<>> THEN <<>>
    ELSE Decoded(Head(entries)) \o DecodedAll(Tail(entries))

\* C25: parsePortMap returns, in order, the mappings of the well-formed entries;
\* an entry without "://", without a backend name or with a non-integer listen
\* port adds nothing, a non-integer backend port reads as 0
C25_LossyDecode ==
    (fn = "parsePortMap" /\ ret # <<>> /\ \A i \in 1..Len(arg) : arg[i] \in RuledEntries) =>
        ret[1] = DecodedAll(arg)

C25_Witness ==
    /\ fn = "parsePortMap" /\ ret # <<>>
    /\ arg = <<"bad-entry", "http://80:svc">>
    /\ Len(ret[1]) = 1 /\ ret[1][1].ListenPort = 80

\* C26: an entry that holds "://" more than once is dropped
C26_ExactlyTwoSegments ==
    (fn = "parsePortMap" /\ ret # <<>> /\ Len(arg) = 1 /\ Len(Split(arg[1], "://")) > 2) =>
        ret[1] = <<>>

-----------------------------------------------------------------------------
(* Extraction of the configuration *)

Extracted == fn = "extractLoadBalancerParams" /\ ret # <<>>

HttpRule(port) == port.name = "http" \/ port.port = 80
HttpsRule(port) == port.name = "https" \/ port.port = 443

\* C27: the type of a mapping depends on its own port only: http for a port
\* named "http" or numbered 80, https for a port named "https" or numbered 443,
\* tcp for every other port
C27_PortClassification ==
    Extracted =>
        LET ports == arg.ports
            maps == ret[1].params.PortMappings
        IN  /\ Len(maps) = Len(ports)
            /\ \A i \in 1..Len(ports) :
                  /\ (HttpRule(ports[i]) /\ ~HttpsRule(ports[i])) => maps[i].Type = "http"
                  /\ (HttpsRule(ports[i]) /\ ~HttpRule(ports[i])) => maps[i].Type = "https"
                  /\ (~HttpRule(ports[i]) /\ ~HttpsRule(ports[i])) => maps[i].Type = "tcp"
                  /\ \A j \in 1..Len(ports) :
                        (ports[j].name = ports[i].name /\ ports[j].port = ports[i].port) =>
                            maps[j].Type = maps[i].Type

C27_Witness ==
    /\ Extracted
    /\ Len(arg.ports) = 2
    /\ arg.ports[1].name = "" /\ arg.ports[1].port = 80
    /\ arg.ports[2].name = "tcp" /\ arg.ports[2].port = 3306
    /\ ret[1].params.PortMappings[1].Type = "http"
    /\ ret[1].params.PortMappings[2].Type = "tcp"

\* C28: extraction returns no error; an annotation that is missing gives the
\* zero value of its field, and so does a max_rs that is not an integer, which
\* leaves the other fields as extracted
C28_ExtractionNeverFails ==
    Extracted =>
        LET an == arg.annotations
            params == ret[1].params
        IN  /\ ret[1].err = NilErr
            /\ "cloud.tritoncompute/max_rs" \notin DOMAIN an => params.MaxBackends = 0
            /\ "cloud.tritoncompute/certificate_name" \notin DOMAIN an =>
                  params.CertificateName = ""
            /\ "cloud.tritoncompute/metrics_acl" \notin DOMAIN an => params.MetricsACL = <<>>
            /\ ("cloud.tritoncompute/max_rs" \in DOMAIN an
                /\ an["cloud.tritoncompute/max_rs"] \in {"abc", "6x", ""}) =>
                  /\ params.MaxBackends = 0
                  /\ params.Name = arg.name
                  /\ Len(params.PortMappings) = Len(arg.ports)
                  /\ "cloud.tritoncompute/certificate_name" \in DOMAIN an =>
                        params.CertificateName = an["cloud.tritoncompute/certificate_name"]
                  /\ ("cloud.tritoncompute/metrics_acl" \in DOMAIN an
                      /\ an["cloud.tritoncompute/metrics_acl"] = "10.0.0.0/8,192.168.0.0/16") =>
                        params.MetricsACL = <<"10.0.0.0/8", "192.168.0.0/16">>

C28_Witness ==
    /\ Extracted
    /\ DOMAIN arg.annotations = {"cloud.tritoncompute/max_rs",
                                 "cloud.tritoncompute/certificate_name",
                                 "cloud.tritoncompute/metrics_acl"}
    /\ arg.annotations["cloud.tritoncompute/max_rs"] = "abc"
    /\ arg.ports = PortsMixed
    /\ ret[1].err = NilErr
    /\ ret[1].params.MaxBackends = 0
    /\ ret[1].params.CertificateName = "example.com"
    /\ Len(ret[1].params.PortMappings) = 2

\* C29: the configuration is named after the object and maps each declared
\* port, in order, to a mapping with that listen port, the name of the object
\* as backend name and the declared target port
C29_ExtractedShape ==
    Extracted =>
        LET params == ret[1].params
        IN  /\ params.Name = arg.name
            /\ Len(params.PortMappings) = Len(arg.ports)
            /\ \A i \in 1..Len(arg.ports) :
                  /\ params.PortMappings[i].ListenPort = arg.ports[i].port
                  /\ params.PortMappings[i].BackendName = arg.name
                  /\ params.PortMappings[i].BackendPort = arg.ports[i].targetPort

C29_Witness ==
    /\ Extracted
    /\ Len(arg.ports) = 2
    /\ arg.ports[1].port = arg.ports[2].port
    /\ arg.ports[1].targetPort = 0 /\ arg.ports[2].targetPort = 8080
    /\ ret[1].params.PortMappings[1].ListenPort = ret[1].params.PortMappings[2].ListenPort
    /\ ret[1].params.PortMappings[1].BackendPort = 0
    /\ ret[1].params.PortMappings[2].BackendPort = 8080

RECURSIVE Concat(_)
Concat(strs) == IF strs = <<>> THEN "" ELSE Head(strs) \o Concat(Tail(strs))

RECURSIVE Strip(_, _)
Strip(s, seps) ==
    IF s = "" THEN ""
    ELSE IF Head(s) \in seps THEN Strip(Tail(s), seps)
    ELSE Head(s) \o Strip(Tail(s), seps)

\* the positions of s where a run of characters outside seps starts
RunStarts(s, seps) ==
    {i \in 1..Len(s) : Char(s, i) \notin seps /\ (i = 1 \/ Char(s, i - 1) \in seps)}

\* tokens are the runs of s between the separators seps, in order
Tokenized(s, tokens, seps) ==
    /\ Len(tokens) = Cardinality(RunStarts(s, seps))
    /\ Concat(tokens) = Strip(s, seps)
    /\ \A i \in 1..Len(tokens) :
          tokens[i] # "" /\ \A k \in 1..Len(tokens[i]) : Char(tokens[i], k) \notin seps

\* the ACL value a step has read and the tokens it has made of it
AclRead ==
    \/ Extracted /\ "cloud.tritoncompute/metrics_acl" \in DOMAIN arg.annotations
    \/ fn = "GetLoadBalancer" /\ ret # <<>>
       /\ "cloud.tritoncompute:metrics_acl" \in DOMAIN arg.metadata
AclValue ==
    IF fn = "GetLoadBalancer" THEN arg.metadata["cloud.tritoncompute:metrics_acl"]
    ELSE arg.annotations["cloud.tritoncompute/metrics_acl"]
AclTokens == IF fn = "GetLoadBalancer" THEN ret[1].MetricsACL ELSE ret[1].params.MetricsACL

CommaSpace == {",", " "}
CommaWhitespace == {",", " ", "\t", "\n"}

\* C30: the ACL annotation and the stored ACL value are split on commas and on
\* space characters, empty tokens are dropped and the order is kept
C30_AclTokenization ==
    AclRead => Tokenized(AclValue, AclTokens, CommaSpace)

C30_Witness ==
    /\ AclRead
    /\ fn = "GetLoadBalancer"
    /\ AclValue = " 10.0.0.0/8,, 192.168.0.0/16 "
    /\ AclTokens = <<"10.0.0.0/8", "192.168.0.0/16">>

\* C30 as stated: every whitespace character separates tokens
C30_WhitespaceTokenization ==
    AclRead => Tokenized(AclValue, AclTokens, CommaWhitespace)

-----------------------------------------------------------------------------
(* Convergence *)

\* one managed instance of the name, holding the configuration of the Service,
\* with one of its addresses in the status of the Service
Converged(id) ==
    /\ Cardinality(ListInstances(Name(id))) = 1
    /\ \A x \in ListInstances(Name(id)) :
          /\ decodeParams(Name(id), instances[x].metadata) =
                extractLoadBalancerParams(Name(id), svc[id].ports, svc[id].annotations)
          /\ Len(svc[id].ingress) = 1
          /\ \E k \in 1..Len(instances[x].ips) : instances[x].ips[k] = svc[id].ingress[1]

\* C22: for a Service of type LoadBalancer that stays as it is, passes that
\* are run again and again, over instances that get to run with an address,
\* lead to a state where one managed instance of its name exists, holds its
\* configuration, and its status carries an address of the instance
C22_SelfHealing ==
    \A id \in Idents :
        svc[id].type = ServiceTypeLoadBalancer => <>Converged(id)

-----------------------------------------------------------------------------
(* The metadata document *)

MetadataKeys ==
    {"cloud.tritoncompute:loadbalancer", "cloud.tritoncompute:portmap",
     "cloud.tritoncompute:max_rs", "cloud.tritoncompute:certificate_name",
     "cloud.tritoncompute:metrics_acl"}

\* doc is the document of configuration c, with max_rs written iff maxRs
KeysWritten(doc, c, maxRs) ==
    /\ DOMAIN doc \subseteq MetadataKeys
    /\ "cloud.tritoncompute:loadbalancer" \in DOMAIN doc
    /\ doc["cloud.tritoncompute:loadbalancer"] = "true"
    /\ "cloud.tritoncompute:portmap" \in DOMAIN doc
    /\ ("cloud.tritoncompute:max_rs" \in DOMAIN doc) <=> maxRs
    /\ "cloud.tritoncompute:max_rs" \in DOMAIN doc =>
          /\ AllDigits(doc["cloud.tritoncompute:max_rs"])
          /\ DigitsVal(doc["cloud.tritoncompute:max_rs"], 0) = c.MaxBackends
    /\ ("cloud.tritoncompute:certificate_name" \in DOMAIN doc) <=> c.CertificateName # ""
    /\ "cloud.tritoncompute:certificate_name" \in DOMAIN doc =>
          doc["cloud.tritoncompute:certificate_name"] = c.CertificateName
    /\ ("cloud.tritoncompute:metrics_acl" \in DOMAIN doc) <=> c.MetricsACL # <<>>
    /\ "cloud.tritoncompute:metrics_acl" \in DOMAIN doc =>
          Split(doc["cloud.tritoncompute:metrics_acl"], ",") = c.MetricsACL

Built == fn = "metadata" /\ ret # <<>>

\* C31: the documents of create and of update hold the marker "true" and the
\* portmap key, max_rs in decimal iff MaxBackends is positive, certificate_name
\* iff the name is not empty, metrics_acl comma-joined iff the list is not
\* empty, and no other key
C31_MetadataKeys ==
    Built => \A k \in 1..2 : KeysWritten(ret[k], arg, arg.MaxBackends > 0)

C31_Witness ==
    /\ Built
    /\ arg.PortMappings = <<>> /\ arg.MaxBackends = 64 /\ arg.CertificateName # ""
    /\ Len(arg.MetricsACL) = 2
    /\ DOMAIN ret[1] = MetadataKeys
    /\ ret[1]["cloud.tritoncompute:portmap"] = ""
    /\ ret[1]["cloud.tritoncompute:max_rs"] = "64"

\* C31 as stated: max_rs is left out for MaxBackends = 0 only
C31_MaxRsUnlessZero ==
    Built => \A k \in 1..2 : KeysWritten(ret[k], arg, arg.MaxBackends # 0)

\* C32: each wait takes the value of its own setting when that is a positive
\* integer, and 300 seconds otherwise
ExpectedTimeout(setting) ==
    CASE setting = "1" -> 1
      [] setting = "5" -> 5
      [] setting = "10" -> 10
      [] setting = "45" -> 45
      [] setting = "600" -> 600
      [] setting \in {"", "abc", "12x", "0", "-5"} -> 300

C32_TimeoutSelection ==
    (fn = "timeoutSeconds" /\ ret # <<>>) =>
        /\ ret[1].provision = ExpectedTimeout(arg.provision)
        /\ ret[1].delete = ExpectedTimeout(arg.delete)

C32_Witness ==
    /\ fn = "timeoutSeconds" /\ ret # <<>>
    /\ arg.provision = "-5" /\ arg.delete = "45"
    /\ ret[1].provision = 300 /\ ret[1].delete = 45

\* UpdateLoadBalancer has written arg.to over the metadata of arg.from, both
\* with a MaxBackends the document can hold
Updated ==
    /\ fn = "UpdateLoadBalancer" /\ ret # <<>>
    /\ arg.from.MaxBackends >= 0 /\ arg.to.MaxBackends >= 0

\* C33: GetLoadBalancer after a successful UpdateLoadBalancer(name, C) returns
\* the mappings, MaxBackends, CertificateName and MetricsACL of C, whatever
\* configuration the metadata was written from before
C33_ReadAfterUpdate ==
    Updated =>
        /\ ret[1].PortMappings = arg.to.PortMappings
        /\ ret[1].MaxBackends = arg.to.MaxBackends
        /\ ret[1].CertificateName = arg.to.CertificateName
        /\ ret[1].MetricsACL = arg.to.MetricsACL

\* C37: create and update build the same document for a configuration, and
\* the instance updated to it decodes as the instance created from it
C37_CreateUpdateAgree ==
    /\ Built => ret[1] = ret[2]
    /\ Updated => ret[1] = decodeParams("a", createMetadata(arg.to))

\* C39: a port under both the http rule and the https rule is http, and every
\* type is one of http, https, tcp
C39_HttpPrecedence ==
    Extracted =>
        \A i \in 1..Len(arg.ports) :
            /\ ret[1].params.PortMappings[i].Type \in {"http", "https", "tcp"}
            /\ (HttpRule(arg.ports[i]) /\ HttpsRule(arg.ports[i])) =>
                  ret[1].params.PortMappings[i].Type = "http"

C39_Witness ==
    /\ Extracted
    /\ Len(arg.ports) = 2
    /\ arg.ports[1].name = "https" /\ arg.ports[1].port = 80
    /\ arg.ports[2].name = "http" /\ arg.ports[2].port = 443
    /\ ret[1].params.PortMappings[1].Type = "http"
    /\ ret[1].params.PortMappings[2].Type = "http"

-----------------------------------------------------------------------------
(* Passes after a failure, on a vanished resource, on a missing object *)

\* the pass before the current one submitted an instance and returned an error,
\* and that instance is still in the store
FailedCreate(id) ==
    /\ prev[id].kind = "normal" /\ prev[id].create = 1 /\ prev[id].created # 0
    /\ ~prev[id].ok
    /\ cur[id].kind = "normal"
    /\ instances[prev[id].created].state \in {"provisioning", "running"}

\* C34: the pass that follows a create which submitted the instance and then
\* returned an error finds an instance by name and tags, issues no create and
\* takes the update path
C34_NoDuplicateAfterFailedWait ==
    \A id \in Idents :
        FailedCreate(id) =>
            /\ cur[id].create = 0 /\ cur[id].created = 0
            /\ cur[id].lookup \in {"none", "present"}
            /\ (cur[id].done /\ cur[id].fault = NilErr) =>
                  cur[id].lookup = "present" /\ cur[id].update = 1

\* the create of the first pass timed out: no call failed
C34_Witness ==
    \E id \in Idents :
        /\ FailedCreate(id) /\ faults = 0
        /\ cur[id].done /\ cur[id].lookup = "present" /\ cur[id].update = 1
        /\ cur[id].create = 0
        /\ Cardinality(ListInstances(Name(id))) = 1

\* C35: a deletion pass that returns nil for an object with the finalizer
\* leaves the object without the finalizer
C35_FinalizerRelease ==
    \A id \in Idents :
        ( /\ cur[id].kind = "delete" /\ cur[id].done /\ cur[id].err = NilErr
          /\ svc[id].exists /\ svc[id].deleting ) =>
            Finalizer \notin svc[id].finalizers

\* C36: UpdateLoadBalancer that lists no instance, in a pass whose lookup found
\* one, ends the pass with the not-found error: no metadata update, no create,
\* no status write, the store and the Services as they were
C36_UpdateOfVanished ==
    [][\A id \in Idents :
         ( /\ pass[id].pc = "UpdateLoadBalancer_List"
           /\ cur[id].kind = "normal" /\ cur[id].lookup = "present"
           /\ ListInstances(Name(id)) = {}
           /\ pass'[id] # pass[id] /\ faults' = faults ) =>
             /\ pass'[id].pc = "idle"
             /\ cur'[id].done
             /\ cur'[id].err = Err("load balancer " \o Name(id) \o " not found")
             /\ cur'[id].res = [RequeueAfter |-> 0, err |-> cur'[id].err]
             /\ cur'[id].apiUpdate = 0 /\ cur'[id].create = 0 /\ cur'[id].status = 0
             /\ instances' = instances /\ svc' = svc]_vars

C36_Witness ==
    \E id \in Idents :
        /\ cur[id].kind = "normal" /\ cur[id].done
        /\ cur[id].lookup = "present" /\ cur[id].update = 1 /\ cur[id].apiUpdate = 0
        /\ cur[id].fault = NilErr
        /\ cur[id].err = Err("load balancer " \o Name(id) \o " not found")
        /\ cur[id].status = 0 /\ svc[id].ingress = cur[id].ingress0

\* C38: a pass that finds no object returns nil without requeue and makes no
\* remote call
C38_MissingObjectNoOp ==
    \A id \in Idents :
        cur[id].kind = "missing" =>
            /\ cur[id].done /\ pass[id].pc = "idle"
            /\ cur[id].res = [RequeueAfter |-> 0, err |-> NilErr]
            /\ cur[id].lookup = "none"
            /\ cur[id].create = 0 /\ cur[id].update = 0 /\ cur[id].delete = 0
            /\ cur[id].apiUpdate = 0 /\ cur[id].apiDelete = 0 /\ cur[id].polls = 0
            /\ cur[id].status = 0 /\ ~cur[id].lbInstance.reached

\* the instance of the name is still in the store
C38_Witness ==
    \E id \in Idents :
        /\ cur[id].kind = "missing" /\ cur[id].done
        /\ ~svc[id].exists
        /\ \E x \in ListInstances(Name(id)) : instances[x].state = "running"
====
